---------------------------- MODULE Spec2Model ----------------------------
(***************************************************************************)
(* Model of the routing core of vueflet-map-app:                           *)
(*   - the routing store (waypoints, route, error, loading flag, UI mode)  *)
(*     of src/modules/map/stores/routing.store.ts,                         *)
(*   - the route normalizer of src/modules/map/services/routing.service.ts *)
(*     (transformOSRMRoute, calculateDuration, recalculateRouteTimes,      *)
(*     getRoutes, getRoute),                                               *)
(*   - the selection of one candidate among a primary route and its        *)
(*     alternatives.                                                       *)
(*                                                                         *)
(* A place (name, coordinates, placeId of a geocoded result) is one value  *)
(* of Places.  crypto.randomUUID() is a counter that never repeats.        *)
(* Distances are whole metres and provider durations whole seconds.        *)
(***************************************************************************)
EXTENDS Integers, Sequences, FiniteSets, TLC

\* ------------------------------------------------------------------ bounds
MaxPlace        == 2   \* distinct geocoded places
MaxWaypoints    == 3   \* waypoints stored at once
MaxIds          == 4   \* calls of crypto.randomUUID() for waypoints
MaxRequests     == 2   \* fetch calls issued by the store
MaxMeters       == 3   \* largest distance of a provider path or step (metres)
MaxSeconds      == 7   \* the non-zero provider duration (seconds)
MaxSteps        == 2   \* steps of one provider path, over all its legs
MaxSwitches     == 2   \* recalculateRouteTimes calls applied to one route
MaxAlternatives == 2   \* alternatives of a batch (getRoutes' maxAlternatives)
MaxKeystrokes   == 3   \* calls of usePlaceSearch's search
DebounceTicks   == 2   \* debounceMs, in ticks of the clock

Places      == 1..MaxPlace
TravelModes == {"driving", "cycling", "walking"}
NoRoute     == [none |-> TRUE]     \* currentRoute.value === null
NoError     == [none |-> TRUE]     \* routingError.value === null
NoCall      == [none |-> TRUE]     \* the service has not been called
NoPlace     == 0                   \* activePlaceId.value === null
NoTimer     == 0                   \* searchTimer === null

VARIABLES
  uiMode,              \* "search" | "directions"
  waypoints,           \* the array waypoints.value, in array order
  currentRoute,        \* a Route or NoRoute
  alternativeRoutes,   \* the alternatives of the batch, in provider order
  travelMode,          \* the store's travelMode
  isCalculatingRoute,  \* the loading flag
  routingError,        \* a RoutingError or NoError
  showSearchMarkers,   \* places store: showSearchMarkers
  pending,             \* calculateRoute calls suspended at the await
  fetchCount,          \* fetch calls made so far (the request token)
  nextId,              \* next value of crypto.randomUUID()
  lastOp,              \* history: the last operation that ran
  nzInput,             \* normalizer: the provider path (for a batch: the
                       \* provider's paths, in its order) given to it
  nzMode,              \* normalizer: the travel mode requested
  nzRoute,             \* normalizer: the Route it made, as retimed since
  nzApplied,           \* normalizer: modes given to recalculateRouteTimes
  svcArgs,             \* service: the arguments of one getRoute/getRoutes
                       \* call and what the provider will answer it with
  svcResult,           \* service: what the call settled with, or NoCall
  searchResults,       \* places store: the ids of searchResults, in order
  activePlaceId,       \* places store: activePlaceId, NoPlace for null
  userLocation,        \* places store: userLocation, NoPlace for undefined
  placesIsSearching,   \* places store: isSearching
  geoFetches,          \* the fetches searchPlaces made: call is the position
                       \* of its text in geocodeCalls, over the calls that
                       \* were awaiting an answer when it was made
  zoomInput,           \* getZoomByAddressType: its argument, a string as
                       \* the sequence of its characters
  zoomResult,          \* getZoomByAddressType: what it returned, or NoCall
  searchQuery,         \* usePlaceSearch: searchQuery.value
  isSearching,         \* usePlaceSearch: isSearching.value
  searchTimer,         \* usePlaceSearch: searchTimer, NoTimer for null
  timeouts,            \* the runtime's pending timeouts: id, text, time left
  geocodeCalls,        \* the texts searchPlaces was called with, in order
  geocodeInFlight,     \* searchPlaces calls that have not settled
  keystrokes,          \* calls of search so far (ids of setTimeout)
  idleTicks            \* time since the last call of search, up to debounceMs

storeVars == <<uiMode, waypoints, currentRoute, alternativeRoutes, travelMode,
               isCalculatingRoute, routingError, showSearchMarkers, pending,
               fetchCount, nextId>>
nzVars    == <<nzInput, nzMode, nzRoute, nzApplied>>
placeVars == <<searchResults, activePlaceId, userLocation, placesIsSearching,
               geoFetches>>
zoomVars  == <<zoomInput, zoomResult>>
typeVars  == <<searchQuery, isSearching, searchTimer, timeouts, geocodeCalls,
               geocodeInFlight, keystrokes, idleTicks>>
sideVars  == <<svcArgs, svcResult, placeVars, zoomVars, typeVars>>
vars      == <<storeVars, lastOp, nzVars, sideVars>>

Indices(s) == 1..Len(s)
Min(S) == CHOOSE x \in S : \A y \in S : x <= y
Max(S) == CHOOSE x \in S : \A y \in S : x >= y

\* --------------------------------------------------------- provider paths
\* An OSRM step carries distance, duration and `step`, which stands for its
\* name, maneuver and geometry (what instruction and coordinates derive from).
StepValues  == [distance : {0, MaxMeters}, duration : {0, MaxSeconds}]

\* the ways to cut n steps into consecutive non-empty legs
RECURSIVE Compositions(_)
Compositions(n) ==
  IF n = 0 THEN {<<>>}
  ELSE UNION {{<<k>> \o c : c \in Compositions(n - k)} : k \in 1..n}

RECURSIVE CutLegs(_, _, _)
CutLegs(flat, comp, legNo) ==
  IF comp = <<>> THEN <<>>
  ELSE <<[steps |-> [k \in 1..Head(comp) |->
                       [distance |-> flat[k].distance,
                        duration |-> flat[k].duration,
                        step     |-> <<legNo, k>>]]]>>
       \o CutLegs(SubSeq(flat, Head(comp) + 1, Len(flat)), Tail(comp), legNo + 1)

OSRMRoutes ==
  UNION {UNION {{[distance |-> d, duration |-> t, legs |-> CutLegs(flat, comp, 1)]
                  : d \in 0..MaxMeters, t \in {0, MaxSeconds}, comp \in Compositions(n)}
               : flat \in [1..n -> StepValues]}
        : n \in 1..MaxSteps}

\* a path of one leg with one step that covers the whole path
SimpleOSRMRoute(d, t) ==
  [distance |-> d, duration |-> t,
   legs |-> <<[steps |-> <<[distance |-> d, duration |-> t, step |-> <<1, 1>>]>>]>>]

\* ------------------------------------------------ routing.service.ts
\* km/h; driving is 0 and unused: the provider's own times are taken
AVERAGE_SPEEDS == [driving |-> 0, cycling |-> 15, walking |-> 5]

\* Math.round(n / m) for n >= 0, m > 0 (halves round up)
Round(n, m) == (2 * n + m) \div (2 * m)

\* a faulty calculateDuration: the seconds are cut, not rounded
calculateDurationFloor(distanceMeters, mode) ==
  LET speedKmh == AVERAGE_SPEEDS[mode]
  IN  IF speedKmh = 0 THEN "NotFinite"
      ELSE (distanceMeters * 3600) \div (1000 * speedKmh)

\* (distanceMeters / 1000) / speedKmh * 3600, rounded.  With speed 0 the
\* quotient is Infinity or NaN: no caller asks for driving.
calculateDuration(distanceMeters, mode) ==
  LET speedKmh == AVERAGE_SPEEDS[mode]
  IN  IF speedKmh = 0 THEN "NotFinite"
      ELSE Round(distanceMeters * 3600, 1000 * speedKmh)

\* coords.map(coord => [coord[1], coord[0]]): [lon, lat] pairs to [lat, lon]
convertCoordinates(coords) ==
  [i \in Indices(coords) |-> <<coords[i][2], coords[i][1]>>]

\* legs.flatMap(leg => leg.steps.map(step => step.step))
RECURSIVE StepPoints(_)
StepPoints(legs) ==
  IF legs = <<>> THEN <<>>
  ELSE [k \in Indices(Head(legs).steps) |-> Head(legs).steps[k].step]
       \o StepPoints(Tail(legs))

\* the two nested forEach loops with the running counter segmentIndex.  A
\* step's pair <<leg, position>> stands for its name and maneuver and for
\* the [lon, lat] point of its geometry.
RECURSIVE SegmentsOfSteps(_, _, _)
SegmentsOfSteps(steps, mode, segmentIndex) ==
  IF steps = <<>> THEN <<>>
  ELSE <<[distance    |-> Head(steps).distance,
          duration    |-> IF mode = "driving" THEN Head(steps).duration
                          ELSE calculateDuration(Head(steps).distance, mode),
          instruction |-> Head(steps).step,
          coordinates |-> convertCoordinates(<<Head(steps).step>>),
          index       |-> segmentIndex]>>
       \o SegmentsOfSteps(Tail(steps), mode, segmentIndex + 1)

\* a faulty numbering: the counter starts again at every leg
RECURSIVE SegmentsOfLegsPerLeg(_, _, _)
SegmentsOfLegsPerLeg(legs, mode, segmentIndex) ==
  IF legs = <<>> THEN <<>>
  ELSE SegmentsOfSteps(Head(legs).steps, mode, 0)
       \o SegmentsOfLegsPerLeg(Tail(legs), mode, 0)

RECURSIVE SegmentsOfLegs(_, _, _)
SegmentsOfLegs(legs, mode, segmentIndex) ==
  IF legs = <<>> THEN <<>>
  ELSE SegmentsOfSteps(Head(legs).steps, mode, segmentIndex)
       \o SegmentsOfLegs(Tail(legs), mode, segmentIndex + Len(Head(legs).steps))

\* legs.flatMap(leg => leg.steps.map(step => step.duration))
RECURSIVE StepDurations(_)
StepDurations(legs) ==
  IF legs = <<>> THEN <<>>
  ELSE [k \in Indices(Head(legs).steps) |-> Head(legs).steps[k].duration]
       \o StepDurations(Tail(legs))

\* a faulty transformOSRMRoute: every candidate is born selected
transformOSRMRouteAllSelected(osrmRoute, mode, alternativeIndex, id) ==
  [id                   |-> id,
   distance             |-> osrmRoute.distance,
   duration             |-> IF mode = "driving" THEN osrmRoute.duration
                            ELSE calculateDuration(osrmRoute.distance, mode),
   segments             |-> SegmentsOfLegs(osrmRoute.legs, mode, 0),
   geometry             |-> convertCoordinates(StepPoints(osrmRoute.legs)),
   travelMode           |-> mode,
   osrmDuration         |-> osrmRoute.duration,
   osrmSegmentDurations |-> StepDurations(osrmRoute.legs),
   alternativeIndex     |-> alternativeIndex,
   isSelected           |-> TRUE]

\* id stands for crypto.randomUUID(); the path's geometry is the line
\* through its steps' points; calculatedAt and the waypoints reference are
\* left out
transformOSRMRoute(osrmRoute, mode, alternativeIndex, id) ==
  [id                   |-> id,
   distance             |-> osrmRoute.distance,
   duration             |-> IF mode = "driving" THEN osrmRoute.duration
                            ELSE calculateDuration(osrmRoute.distance, mode),
   segments             |-> SegmentsOfLegs(osrmRoute.legs, mode, 0),
   geometry             |-> convertCoordinates(StepPoints(osrmRoute.legs)),
   travelMode           |-> mode,
   osrmDuration         |-> osrmRoute.duration,
   osrmSegmentDurations |-> StepDurations(osrmRoute.legs),
   alternativeIndex     |-> alternativeIndex,
   isSelected           |-> (alternativeIndex = 0)]

\* JavaScript's a || b on numbers: 0 is falsy
OrElse(a, b) == IF a = 0 THEN b ELSE a

\* a faulty recalculateRouteTimes: the new total is written over the stored
\* provider duration as well
recalculateRouteTimesOverStored(route, newTravelMode) ==
  IF route.travelMode = newTravelMode THEN route
  ELSE LET totalDuration ==
             IF newTravelMode = "driving"
             THEN OrElse(route.osrmDuration, route.duration)
             ELSE calculateDuration(route.distance, newTravelMode)
       IN  [route EXCEPT !.duration = totalDuration,
                         !.osrmDuration = totalDuration,
                         !.travelMode = newTravelMode]

recalculateRouteTimes(route, newTravelMode) ==
  IF route.travelMode = newTravelMode THEN route
  ELSE IF newTravelMode = "driving"
  THEN [route EXCEPT
          !.duration   = OrElse(route.osrmDuration, route.duration),
          !.segments   = [k \in Indices(route.segments) |->
                            [route.segments[k] EXCEPT !.duration =
                               OrElse(route.osrmSegmentDurations[k],
                                      route.segments[k].duration)]],
          !.travelMode = newTravelMode]
  ELSE [route EXCEPT
          !.duration   = calculateDuration(route.distance, newTravelMode),
          !.segments   = [k \in Indices(route.segments) |->
                            [route.segments[k] EXCEPT !.duration =
                               calculateDuration(route.segments[k].distance,
                                                 newTravelMode)]],
          !.travelMode = newTravelMode]

\* What the provider does with one request.  fetch may reject, with a
\* TypeError or (a fetch of a Node runtime or a polyfill) with an error
\* object that has a string code and a string message; the HTTP status may
\* be non-2xx, the body may not parse, or the body has a code and a list of
\* paths.
BodyOutcome(code, routes) == [kind |-> "body", code |-> code, routes |-> routes]
FailOutcome(kind)         == [kind |-> kind, code |-> "", routes |-> <<>>]
FailureOutcomes ==
  {FailOutcome("fetchRejects"), FailOutcome("fetchRejectsCoded"),
   FailOutcome("httpStatus"), FailOutcome("badBody"),
   BodyOutcome("NoRoute", <<>>), BodyOutcome("Ok", <<>>)}

\* a thrown value; shaped: it has a string code and a string message
\* details: what createError was given to wrap, "" when nothing
createError(code)    == [code |-> code, shaped |-> TRUE, details |-> ""]
Thrown(name)         == [code |-> name, shaped |-> FALSE, details |-> ""]
isRoutingError(error) == error.shaped

\* a faulty getRoutes: the provider's paths are taken last to first
getRoutesReversed(mode, outcome, firstId) ==
  IF outcome.kind # "body" \/ outcome.code # "Ok" \/ outcome.routes = <<>>
  THEN [ok |-> FALSE, routes |-> <<>>, error |-> createError("API_ERROR")]
  ELSE [ok |-> TRUE,
        routes |-> [i \in Indices(outcome.routes) |->
                      transformOSRMRoute(
                        outcome.routes[Len(outcome.routes) + 1 - i], mode, i - 1,
                        firstId + i - 1)],
        error |-> createError("")]

\* getRoutes from the fetch on: the result it resolves or rejects with.
\* firstId: the route of path i gets id firstId + i.
getRoutes(mode, outcome, firstId) ==
  LET thrown ==
        IF outcome.kind = "fetchRejects" THEN Thrown("TypeError")
        ELSE IF outcome.kind = "fetchRejectsCoded"
        THEN [Thrown("ECONNREFUSED") EXCEPT !.shaped = TRUE]
        ELSE IF outcome.kind = "httpStatus" THEN createError("NETWORK_ERROR")
        ELSE IF outcome.kind = "badBody" THEN Thrown("SyntaxError")
        ELSE createError("NO_ROUTE")
      failed == outcome.kind # "body" \/ outcome.code # "Ok" \/ outcome.routes = <<>>
  IN  IF failed
      THEN [ok |-> FALSE, routes |-> <<>>,
            error |-> IF isRoutingError(thrown) THEN thrown
                      ELSE [createError("API_ERROR") EXCEPT !.details = thrown.code]]
      ELSE [ok |-> TRUE,
            routes |-> [i \in Indices(outcome.routes) |->
                          transformOSRMRoute(outcome.routes[i], mode, i - 1,
                                             firstId + i - 1)],
            error |-> createError("")]

\* a faulty getRoute: it keeps the provider's last path, not its first
getRouteLast(mode, outcome, firstId) ==
  LET res == getRoutes(mode, outcome, firstId)
  IN  IF ~res.ok THEN [ok |-> FALSE, route |-> NoRoute, error |-> res.error]
      ELSE IF res.routes = <<>>
      THEN [ok |-> FALSE, route |-> NoRoute, error |-> createError("NO_ROUTE")]
      ELSE [ok |-> TRUE, route |-> res.routes[Len(res.routes)], error |-> res.error]

\* getRoute: getRoutes(waypoints, travelMode, 0), then routes[0]
getRoute(mode, outcome, firstId) ==
  LET res == getRoutes(mode, outcome, firstId)
  IN  IF ~res.ok THEN [ok |-> FALSE, route |-> NoRoute, error |-> res.error]
      ELSE IF res.routes = <<>>
      THEN [ok |-> FALSE, route |-> NoRoute, error |-> createError("NO_ROUTE")]
      ELSE [ok |-> TRUE, route |-> res.routes[1], error |-> res.error]

\* ----------------------------------------------------------------- getters
originWaypoints      == {i \in Indices(waypoints) : waypoints[i].type = "origin"}
destinationWaypoints == {i \in Indices(waypoints) : waypoints[i].type = "destination"}

\* Array.prototype.find: the first element that matches, in array order
hasOrigin      == originWaypoints # {}
hasDestination == destinationWaypoints # {}
originWaypoint      == waypoints[Min(originWaypoints)]
destinationWaypoint == waypoints[Min(destinationWaypoints)]

\* a faulty canCalculateRoute: an origin is enough
canCalculateRouteOriginOnly == hasOrigin

canCalculateRoute == hasOrigin /\ hasDestination
hasRoute          == currentRoute # NoRoute

\* ------------------------------------------------------- waypoint helpers
RECURSIVE InsertStable(_, _)
InsertStable(s, w) ==
  IF s = <<>> THEN <<w>>
  ELSE IF Head(s).order <= w.order
       THEN <<Head(s)>> \o InsertStable(Tail(s), w)
       ELSE <<w>> \o s

\* waypoints.value.sort((a, b) => a.order - b.order): a stable sort
RECURSIVE SortByOrder(_)
SortByOrder(s) ==
  IF s = <<>> THEN <<>>
  ELSE InsertStable(SortByOrder(SubSeq(s, 1, Len(s) - 1)), s[Len(s)])

\* push, then sort
addWaypoint(wps, wp) == SortByOrder(Append(wps, wp))

\* updateWaypoint: findIndex by id; if found, the element is replaced by
\* { ...old, ...updates }; an unknown id changes nothing
updateWaypoint(wps, id, updates) ==
  [i \in Indices(wps) |->
     IF wps[i].id = id /\ \A j \in 1..(i-1) : wps[j].id # id
     THEN [f \in DOMAIN wps[i] |->
             IF f \in DOMAIN updates THEN updates[f] ELSE wps[i][f]]
     ELSE wps[i]]

RECURSIVE FilterOutId(_, _)
FilterOutId(s, id) ==
  IF s = <<>> THEN <<>>
  ELSE IF Head(s).id = id THEN FilterOutId(Tail(s), id)
       ELSE <<Head(s)>> \o FilterOutId(Tail(s), id)

\* forEach((wp, index) => wp.order = index)
reorderWaypoints(wps) == [i \in Indices(wps) |-> [wps[i] EXCEPT !.order = i - 1]]

\* ------------------------------------------------------------------- Init
\* lastOp: the operation, its argument, and three history fields.
\*   note:  for a settled request, whether the provider succeeded
\*   quiet: no command has run since the last clearRoute or setSearchMode
\*   clean: for a settled request, its undisturbed flag
Op(name, arg) ==
  [op |-> name, arg |-> arg, note |-> "", quiet |-> FALSE, clean |-> FALSE]
ClearOp(name) ==
  [op |-> name, arg |-> 0, note |-> "", quiet |-> TRUE, clean |-> FALSE]

StoreInit ==
  /\ uiMode = "search"
  /\ waypoints = <<>>
  /\ currentRoute = NoRoute
  /\ alternativeRoutes = <<>>
  /\ travelMode = "driving"
  /\ isCalculatingRoute = FALSE
  /\ routingError = NoError
  /\ showSearchMarkers = TRUE
  /\ pending = {}
  /\ fetchCount = 0
  /\ nextId = 1

NormalizerIdle ==
  /\ nzInput = SimpleOSRMRoute(0, 0)
  /\ nzMode = "driving"
  /\ nzRoute = NoRoute
  /\ nzApplied = <<>>

ServiceIdle ==
  /\ svcArgs = NoCall
  /\ svcResult = NoCall

PlacesIdle ==
  /\ searchResults = <<>>
  /\ activePlaceId = NoPlace
  /\ userLocation = NoPlace
  /\ placesIsSearching = FALSE
  /\ geoFetches = {}

ZoomIdle ==
  /\ zoomInput = <<>>
  /\ zoomResult = NoCall

TypingIdle ==
  /\ searchQuery = <<>>
  /\ isSearching = FALSE
  /\ searchTimer = NoTimer
  /\ timeouts = {}
  /\ geocodeCalls = <<>>
  /\ geocodeInFlight = 0
  /\ keystrokes = 0
  /\ idleTicks = 0

SideIdle == ServiceIdle /\ PlacesIdle /\ ZoomIdle /\ TypingIdle

Init == StoreInit /\ NormalizerIdle /\ SideIdle /\ lastOp = Op("init", 0)

\* ---------------------------------------------------------- store actions
\* a faulty setRoutingError: the stored route survives the error
setRoutingErrorKeepsRoute(error) ==
  /\ routingError' = error
  /\ currentRoute' = currentRoute

setRoutingError(error) ==
  /\ routingError' = error
  /\ currentRoute' = NoRoute

\* a faulty setRoute: the stored error survives the route
setRouteKeepsError(route) ==
  /\ currentRoute' = route
  /\ routingError' = routingError

setRoute(route) ==
  /\ currentRoute' = route
  /\ routingError' = NoError

\* a faulty setDirectionsMode: hideSearchMarkers() is not called
setDirectionsModeKeepsMarkers ==
  /\ uiMode' = "directions"
  /\ lastOp' = Op("setDirectionsMode", 0)
  /\ UNCHANGED <<waypoints, currentRoute, alternativeRoutes, travelMode,
                 isCalculatingRoute, routingError, showSearchMarkers, pending,
                 fetchCount, nextId, nzVars, sideVars>>

setDirectionsMode ==
  /\ uiMode' = "directions"
  /\ showSearchMarkers' = FALSE
  /\ lastOp' = Op("setDirectionsMode", 0)
  /\ UNCHANGED <<waypoints, currentRoute, alternativeRoutes, travelMode,
                 isCalculatingRoute, routingError, pending, fetchCount, nextId, nzVars, sideVars>>

clearRoute ==
  /\ waypoints' = <<>>
  /\ currentRoute' = NoRoute
  /\ routingError' = NoError
  /\ lastOp' = ClearOp("clearRoute")
  /\ UNCHANGED <<uiMode, alternativeRoutes, travelMode, isCalculatingRoute,
                 showSearchMarkers, pending, fetchCount, nextId, nzVars, sideVars>>

\* a faulty setSearchMode: clearRoute() is not called
setSearchModeNoClear ==
  /\ uiMode' = "search"
  /\ showSearchMarkers' = TRUE
  /\ lastOp' = ClearOp("setSearchMode")
  /\ UNCHANGED <<waypoints, currentRoute, routingError, alternativeRoutes,
                 travelMode, isCalculatingRoute, pending, fetchCount, nextId,
                 nzVars, sideVars>>

\* uiMode, then clearRoute(), then showSearchMarkersAgain()
setSearchMode ==
  /\ uiMode' = "search"
  /\ waypoints' = <<>>
  /\ currentRoute' = NoRoute
  /\ routingError' = NoError
  /\ showSearchMarkers' = TRUE
  /\ lastOp' = ClearOp("setSearchMode")
  /\ UNCHANGED <<alternativeRoutes, travelMode, isCalculatingRoute, pending,
                 fetchCount, nextId, nzVars, sideVars>>

setTravelMode(mode) ==
  /\ travelMode' = mode
  /\ lastOp' = Op("setTravelMode", 0)
  /\ UNCHANGED <<uiMode, waypoints, currentRoute, alternativeRoutes,
                 isCalculatingRoute, routingError, showSearchMarkers, pending,
                 fetchCount, nextId, nzVars, sideVars>>

WaypointFrame ==
  UNCHANGED <<uiMode, currentRoute, alternativeRoutes, travelMode,
              isCalculatingRoute, routingError, showSearchMarkers, pending,
              fetchCount, nzVars, sideVars>>

CanCreate == Len(waypoints) < MaxWaypoints /\ nextId <= MaxIds

\* a faulty setOrigin: it never looks for the origin already stored
setOriginAlwaysCreates(p) ==
  /\ CanCreate
  /\ waypoints' = addWaypoint(waypoints,
         [id |-> nextId, place |-> p, type |-> "origin", order |-> 0])
  /\ nextId' = nextId + 1
  /\ lastOp' = Op("setOrigin", p)
  /\ WaypointFrame

setOrigin(p) ==
  /\ IF hasOrigin
     THEN /\ waypoints' = updateWaypoint(waypoints, originWaypoint.id, [place |-> p])
          /\ nextId' = nextId
     ELSE /\ CanCreate
          /\ waypoints' = addWaypoint(waypoints,
                 [id |-> nextId, place |-> p, type |-> "origin", order |-> 0])
          /\ nextId' = nextId + 1
  /\ lastOp' = Op("setOrigin", p)
  /\ WaypointFrame

\* a faulty setDestination: a new destination takes the number of stored
\* waypoints as its order
setDestinationAtLength(p) ==
  /\ IF hasDestination
     THEN /\ waypoints' = updateWaypoint(waypoints, destinationWaypoint.id, [place |-> p])
          /\ nextId' = nextId
     ELSE /\ CanCreate
          /\ waypoints' = addWaypoint(waypoints,
                 [id |-> nextId, place |-> p, type |-> "destination",
                  order |-> Len(waypoints)])
          /\ nextId' = nextId + 1
  /\ lastOp' = Op("setDestination", p)
  /\ WaypointFrame

setDestination(p) ==
  /\ IF hasDestination
     THEN /\ waypoints' = updateWaypoint(waypoints, destinationWaypoint.id, [place |-> p])
          /\ nextId' = nextId
     ELSE /\ CanCreate
          /\ LET maxOrder == IF Len(waypoints) > 0
                             THEN Max({waypoints[i].order : i \in Indices(waypoints)})
                             ELSE -1
             IN  waypoints' = addWaypoint(waypoints,
                    [id |-> nextId, place |-> p, type |-> "destination",
                     order |-> maxOrder + 1])
          /\ nextId' = nextId + 1
  /\ lastOp' = Op("setDestination", p)
  /\ WaypointFrame

addIntermediateWaypoint(p) ==
  /\ CanCreate
  /\ LET order == IF hasDestination THEN destinationWaypoint.order ELSE Len(waypoints)
         added == addWaypoint(waypoints,
                    [id |-> nextId, place |-> p, type |-> "waypoint", order |-> order])
     IN  waypoints' = IF hasDestination
                      THEN updateWaypoint(added, destinationWaypoint.id,
                                          [order |-> order + 1])
                      ELSE added
  /\ nextId' = nextId + 1
  /\ lastOp' = Op("addIntermediateWaypoint", p)
  /\ WaypointFrame

\* filter, then reorderWaypoints(); id may match no waypoint
removeWaypoint(id) ==
  /\ waypoints' = reorderWaypoints(FilterOutId(waypoints, id))
  /\ lastOp' = Op("removeWaypoint", id)
  /\ UNCHANGED nextId
  /\ WaypointFrame

\* swapOriginDestination as a function of the array it is given
HasType(wps, type)     == \E i \in Indices(wps) : wps[i].type = type
FirstOfType(wps, type) == wps[Min({i \in Indices(wps) : wps[i].type = type})]

\* a faulty swap: destination.order is read after the origin's order was
\* written over it
SwappedWaypointsLateRead(wps) ==
  IF ~HasType(wps, "origin") \/ ~HasType(wps, "destination") THEN wps
  ELSE LET origin      == FirstOfType(wps, "origin")
           destination == FirstOfType(wps, "destination")
           w1 == updateWaypoint(wps, origin.id, [type |-> "destination"])
           w2 == updateWaypoint(w1, destination.id, [type |-> "origin"])
           w3 == updateWaypoint(w2, origin.id, [order |-> destination.order])
           w4 == updateWaypoint(w3, destination.id, [order |-> destination.order])
       IN  SortByOrder(w4)

SwappedWaypoints(wps) ==
  IF ~HasType(wps, "origin") \/ ~HasType(wps, "destination") THEN wps
  ELSE LET origin      == FirstOfType(wps, "origin")
           destination == FirstOfType(wps, "destination")
           w1 == updateWaypoint(wps, origin.id, [type |-> "destination"])
           w2 == updateWaypoint(w1, destination.id, [type |-> "origin"])
           tempOrder == origin.order
           w3 == updateWaypoint(w2, origin.id, [order |-> destination.order])
           w4 == updateWaypoint(w3, destination.id, [order |-> tempOrder])
       IN  SortByOrder(w4)

\* a faulty swapOriginDestination: the types are exchanged, the orders are not
swapOriginDestinationTypesOnly ==
  /\ IF ~hasOrigin \/ ~hasDestination
     THEN waypoints' = waypoints
     ELSE LET origin      == originWaypoint
              destination == destinationWaypoint
              w1 == updateWaypoint(waypoints, origin.id, [type |-> "destination"])
              w2 == updateWaypoint(w1, destination.id, [type |-> "origin"])
          IN  waypoints' = SortByOrder(w2)
  /\ lastOp' = Op("swapOriginDestination", 0)
  /\ UNCHANGED nextId
  /\ WaypointFrame

\* origin and destination are the objects read before the first update, so
\* their order fields keep the old values through the four updates.
\* lastOp.arg: 2 if the call before was swapOriginDestination too, else 1
swapOriginDestination ==
  /\ IF ~hasOrigin \/ ~hasDestination
     THEN waypoints' = waypoints
     ELSE LET origin      == originWaypoint
              destination == destinationWaypoint
              w1 == updateWaypoint(waypoints, origin.id, [type |-> "destination"])
              w2 == updateWaypoint(w1, destination.id, [type |-> "origin"])
              tempOrder == origin.order
              w3 == updateWaypoint(w2, origin.id, [order |-> destination.order])
              w4 == updateWaypoint(w3, destination.id, [order |-> tempOrder])
          IN  waypoints' = SortByOrder(w4)
  /\ lastOp' = Op("swapOriginDestination",
                  IF lastOp.op = "swapOriginDestination" THEN 2 ELSE 1)
  /\ UNCHANGED nextId
  /\ WaypointFrame

\* the waypoint list as buildOSRMUrl writes it: array order, one place each
\* wp.coordinates: the [lat, lon] pair of a place; a place's latitude and
\* longitude are different numbers
coordinates(place) == <<place, place + MaxPlace>>

\* `${wp.coordinates[1]},${wp.coordinates[0]}` for each waypoint, in the
\* order of the array
UrlCoordinates(wps) ==
  [i \in Indices(wps) |->
     <<coordinates(wps[i].place)[2], coordinates(wps[i].place)[1]>>]

\* what the provider answers the store's requests with: a failure, or two
\* paths (getRoute keeps the first)
ProviderPaths == <<SimpleOSRMRoute(MaxMeters, MaxSeconds), SimpleOSRMRoute(0, 0)>>

StoreOutcomes == {BodyOutcome("Ok", ProviderPaths)} \cup FailureOutcomes

\* the orchestrator's commands are given one place: none of them reads it
StorePlaces == {Min(Places)}

\* Whether the provider found a path
Succeeds(outcome) ==
  outcome.kind = "body" /\ outcome.code = "Ok" /\ outcome.routes # <<>>

\* A suspended call holds what it gave getRoute (the URL's coordinates, the
\* travel mode) and two history flags:
\*   solo:        no other request has been in flight since it was issued
\*   undisturbed: no other calculateRoute call has run since it was issued
Disturbed(r, overlap) ==
  [r EXCEPT !.undisturbed = FALSE, !.solo = IF overlap THEN FALSE ELSE @]

\* calculateRoute up to its await.  getRoutes rejects a list of fewer than 2
\* waypoints before it fetches: that rejection is handled in the same task.
\* wps: the array waypoints.value at the time of the call
calculateRouteWith(wps) ==
  IF ~(HasType(wps, "origin") /\ HasType(wps, "destination"))
  THEN /\ setRoutingError([code |-> "INVALID_WAYPOINTS", req |-> 0])
       /\ pending' = {Disturbed(r, FALSE) : r \in pending}
       /\ UNCHANGED <<isCalculatingRoute, fetchCount>>
  ELSE IF Len(wps) < 2
  THEN /\ setRoutingError([code |-> "INVALID_WAYPOINTS", req |-> 0])
       /\ isCalculatingRoute' = FALSE
       /\ pending' = {Disturbed(r, FALSE) : r \in pending}
       /\ UNCHANGED fetchCount
  ELSE /\ fetchCount < MaxRequests
       /\ isCalculatingRoute' = TRUE
       /\ routingError' = NoError
       /\ fetchCount' = fetchCount + 1
       /\ pending' = {Disturbed(r, TRUE) : r \in pending}
             \cup {[req         |-> fetchCount + 1,
                    coords      |-> UrlCoordinates(wps),
                    mode        |-> travelMode,
                    solo        |-> (pending = {}),
                    undisturbed |-> (pending = {})]}
       /\ UNCHANGED currentRoute

calculateRoute ==
  /\ calculateRouteWith(waypoints)
  /\ lastOp' = Op("calculateRoute", 0)
  /\ UNCHANGED <<uiMode, waypoints, alternativeRoutes, travelMode,
                 showSearchMarkers, nextId, nzVars, sideVars>>

\* a faulty settle: the loading flag is cleared in the try, not in a finally,
\* so a rejection leaves it set
calculateRouteSettlesNoFinally(r, outcome) ==
  /\ r \in pending
  /\ LET res == getRoute(r.mode, outcome, r.req)
     IN  IF res.ok THEN setRoute(res.route) /\ isCalculatingRoute' = FALSE
         ELSE /\ setRoutingError([code |-> res.error.code, req |-> r.req])
              /\ UNCHANGED isCalculatingRoute
  /\ pending' = pending \ {r}
  /\ lastOp' = [op |-> "calculateRouteSettles", arg |-> r.req,
                note |-> IF Succeeds(outcome) THEN "ok" ELSE "failed",
                quiet |-> lastOp.quiet, clean |-> r.undisturbed]
  /\ UNCHANGED <<uiMode, waypoints, alternativeRoutes, travelMode,
                 showSearchMarkers, fetchCount, nextId, nzVars, sideVars>>

\* calculateRoute from its await on: the try's rest, the catch, the finally.
\* The route's id and the error's req name the request they answer.
calculateRouteSettles(r, outcome) ==
  /\ r \in pending
  /\ LET res == getRoute(r.mode, outcome, r.req)
     IN  IF res.ok THEN setRoute(res.route)
         ELSE IF isRoutingError(res.error)
         THEN setRoutingError([code |-> res.error.code, req |-> r.req])
         ELSE setRoutingError([code |-> "API_ERROR", req |-> r.req])
  /\ isCalculatingRoute' = FALSE
  /\ pending' = pending \ {r}
  /\ lastOp' = [op |-> "calculateRouteSettles", arg |-> r.req,
                note |-> IF Succeeds(outcome) THEN "ok" ELSE "failed",
                quiet |-> lastOp.quiet, clean |-> r.undisturbed]
  /\ UNCHANGED <<uiMode, waypoints, alternativeRoutes, travelMode,
                 showSearchMarkers, fetchCount, nextId, nzVars, sideVars>>

\* the orchestrator: modes, origin and destination, route requests
Next ==
  \/ setDirectionsMode
  \/ setSearchMode
  \/ clearRoute
  \/ \E m \in TravelModes : setTravelMode(m)
  \/ \E p \in StorePlaces : setOrigin(p)
  \/ \E p \in StorePlaces : setDestination(p)
  \/ calculateRoute
  \/ \E r \in pending : \E o \in StoreOutcomes : calculateRouteSettles(r, o)

Spec == Init /\ [][Next]_vars

\* the waypoint collection alone: every command that writes waypoints
WaypointNext ==
  \/ clearRoute
  \/ \E p \in Places : setOrigin(p)
  \/ \E p \in Places : setDestination(p)
  \/ \E p \in Places : addIntermediateWaypoint(p)
  \/ \E id \in 1..MaxIds : removeWaypoint(id)
  \/ swapOriginDestination

SpecWaypoints == Init /\ [][WaypointNext]_vars

\* the four commands that build and shrink the waypoint collection
WaypointOrderNext ==
  \/ \E p \in Places : setOrigin(p)
  \/ \E p \in Places : setDestination(p)
  \/ \E p \in Places : addIntermediateWaypoint(p)
  \/ \E id \in 1..MaxIds : removeWaypoint(id)

SpecWaypointOrder == Init /\ [][WaypointOrderNext]_vars

\* the waypoint commands, up to the first request made from what they
\* leave
ItineraryNext ==
  \/ \E p \in StorePlaces : pending = {} /\ setOrigin(p)
  \/ \E p \in StorePlaces : pending = {} /\ setDestination(p)
  \/ \E p \in Places : pending = {} /\ addIntermediateWaypoint(p)
  \/ \E id \in 1..MaxIds : pending = {} /\ removeWaypoint(id)
  \/ pending = {} /\ swapOriginDestination
  \/ pending = {} /\ calculateRoute

SpecItinerary == Init /\ [][ItineraryNext]_vars

\* every provider call settles in the end
SettleRequest(n) ==
  \E r \in pending : r.req = n /\ \E o \in StoreOutcomes : calculateRouteSettles(r, o)

\* the orchestrator in one travel mode: neither the guard nor the loading
\* flag depends on travelMode
RequestNext ==
  \/ setDirectionsMode
  \/ setSearchMode
  \/ clearRoute
  \/ \E p \in StorePlaces : setOrigin(p)
  \/ \E p \in StorePlaces : setDestination(p)
  \/ calculateRoute
  \/ \E r \in pending : \E o \in StoreOutcomes : calculateRouteSettles(r, o)

FairSpec ==
  /\ Init
  /\ [][RequestNext]_vars
  /\ \A n \in 1..MaxRequests : WF_vars(SettleRequest(n))

\* ------------------------------------------------------- the normalizer
\* transformOSRMRoute on any provider path in any mode, then any sequence
\* of recalculateRouteTimes calls on the route
NormalizerInit ==
  /\ StoreInit
  /\ nzInput \in OSRMRoutes
  /\ nzMode \in TravelModes
  /\ nzRoute = NoRoute
  /\ nzApplied = <<>>
  /\ SideIdle
  /\ lastOp = Op("init", 0)

Normalize ==
  /\ nzRoute = NoRoute
  /\ nzRoute' = transformOSRMRoute(nzInput, nzMode, 0, 1)
  /\ lastOp' = Op("transformOSRMRoute", 0)
  /\ UNCHANGED <<storeVars, nzInput, nzMode, nzApplied, sideVars>>

Recalculate(m) ==
  /\ nzRoute # NoRoute
  /\ Len(nzApplied) < MaxSwitches
  /\ nzRoute' = recalculateRouteTimes(nzRoute, m)
  /\ nzApplied' = Append(nzApplied, m)
  /\ lastOp' = Op("recalculateRouteTimes", 0)
  /\ UNCHANGED <<storeVars, nzInput, nzMode, sideVars>>

NormalizerNext ==
  \/ Normalize
  \/ \E m \in TravelModes : Recalculate(m)

SpecNormalizer == NormalizerInit /\ [][NormalizerNext]_vars

\* ------------------------------------------------- the selection ledger
\* The batch is the primary route and its alternatives, as getRoutes makes
\* them from the provider's paths.
Batch == <<currentRoute>> \o alternativeRoutes

LedgerPaths == {SimpleOSRMRoute(d, t) : d \in {0, MaxMeters}, t \in {0, MaxSeconds}}

LedgerInit ==
  /\ uiMode = "directions"
  /\ waypoints = <<>>
  /\ travelMode \in TravelModes
  /\ \E n \in 1..(MaxAlternatives + 1) : nzInput \in [1..n -> LedgerPaths]
  /\ currentRoute = NoRoute
  /\ alternativeRoutes = <<>>
  /\ isCalculatingRoute = FALSE
  /\ routingError = NoError
  /\ showSearchMarkers = FALSE
  /\ pending = {}
  /\ fetchCount = 1
  /\ nextId = 1
  /\ nzMode = travelMode
  /\ nzRoute = NoRoute
  /\ nzApplied = <<>>
  /\ SideIdle
  /\ lastOp = Op("init", 0)

\* the provider answers with the paths nzInput; the batch is stored
getRoutesResolves ==
  /\ currentRoute = NoRoute
  /\ LET res == getRoutes(travelMode, BodyOutcome("Ok", nzInput), 1)
     IN  /\ currentRoute' = res.routes[1]
         /\ alternativeRoutes' = Tail(res.routes)
  /\ lastOp' = Op("getRoutes", 0)
  /\ UNCHANGED <<uiMode, waypoints, travelMode, isCalculatingRoute, routingError,
                 showSearchMarkers, pending, fetchCount, nextId, nzVars, sideVars>>

\* a faulty selectByRank: the flags are rewritten whatever the rank names
selectByRankUnguarded(batch, rank) ==
  [i \in Indices(batch) |->
     [batch[i] EXCEPT !.isSelected = (batch[i].alternativeIndex = rank)]]

\* selectByRank: a candidate of that rank that is not the selected one
\* becomes selected and every other candidate unselected; an unknown rank
\* and the rank already selected change nothing
selectByRank(batch, rank) ==
  LET named == {i \in Indices(batch) : batch[i].alternativeIndex = rank}
  IN  IF named = {} \/ \E i \in named : batch[i].isSelected THEN batch
      ELSE [i \in Indices(batch) |->
              [batch[i] EXCEPT !.isSelected = (batch[i].alternativeIndex = rank)]]

\* the callers' index: -1 names the primary route, i >= 0 names
\* alternativeRoutes[i], which getRoutes gave rank i + 1
selectAlternativeRoute(index) ==
  /\ currentRoute # NoRoute
  /\ LET selected == selectByRank(Batch, index + 1)
     IN  /\ currentRoute' = selected[1]
         /\ alternativeRoutes' = Tail(selected)
  /\ lastOp' = Op("selectAlternativeRoute", index)
  /\ UNCHANGED <<uiMode, waypoints, travelMode, isCalculatingRoute, routingError,
                 showSearchMarkers, pending, fetchCount, nextId, nzVars, sideVars>>

\* Array.prototype.sort with (a, b) => a.route.duration - b.route.duration:
\* a stable sort, entries of equal duration keep their order
RECURSIVE InsertByDuration(_, _)
InsertByDuration(s, e) ==
  IF s = <<>> THEN <<e>>
  ELSE IF e.route.duration < Head(s).route.duration THEN <<e>> \o s
  ELSE <<Head(s)>> \o InsertByDuration(Tail(s), e)

RECURSIVE SortByDuration(_)
SortByDuration(s) ==
  IF s = <<>> THEN <<>>
  ELSE InsertByDuration(SortByDuration(SubSeq(s, 1, Len(s) - 1)), s[Len(s)])

\* allRoutes: the primary route (index -1) and the alternatives (index 0..),
\* each with isFastest, timeDiff and distanceDiff, fastest first
allRoutes ==
  IF currentRoute = NoRoute THEN <<>>
  ELSE LET routes == [i \in Indices(Batch) |->
                        [route |-> Batch[i], index |-> i - 2,
                         isAlternative |-> (i > 1)]]
           fastestDuration == Min({routes[i].route.duration : i \in Indices(routes)})
           found == Min({i \in Indices(routes) :
                           routes[i].route.duration = fastestDuration})
           routesWithInfo ==
             [i \in Indices(routes) |->
                [route |-> routes[i].route,
                 index |-> routes[i].index,
                 isAlternative |-> routes[i].isAlternative,
                 isFastest |-> (routes[i].route.duration = fastestDuration),
                 timeDiff |-> routes[i].route.duration - fastestDuration,
                 distanceDiff |-> routes[i].route.distance
                                    - routes[found].route.distance]]
       IN  SortByDuration(routesWithInfo)

\* a faulty allRoutes: sort is called on alternativeRoutes.value itself
allRoutesSortsStore ==
  /\ currentRoute # NoRoute
  /\ LET sorted == SortByDuration([i \in Indices(alternativeRoutes) |->
                                     [route |-> alternativeRoutes[i]]])
     IN  alternativeRoutes' = [i \in Indices(sorted) |-> sorted[i].route]
  /\ lastOp' = Op("allRoutes", Len(allRoutes))
  /\ UNCHANGED <<uiMode, waypoints, travelMode, currentRoute, isCalculatingRoute,
                 routingError, showSearchMarkers, pending, fetchCount, nextId,
                 nzVars, sideVars>>

\* the computed is evaluated.  routes and routesWithInfo are arrays made by
\* the getter and their entries are new objects, so sort reorders the
\* getter's own array and no store field is written.
allRoutesComputed ==
  /\ currentRoute # NoRoute
  /\ lastOp' = Op("allRoutes", Len(allRoutes))
  /\ UNCHANGED <<storeVars, nzVars, sideVars>>

LedgerNext ==
  \/ getRoutesResolves
  \/ \E index \in (-1)..MaxAlternatives : selectAlternativeRoute(index)
  \/ allRoutesComputed

SpecLedger == LedgerInit /\ [][LedgerNext]_vars

\* ------------------------------------------------- the directions panel
\* setOrigin and setDestination as functions of the array: wps after the
\* call, nid being the id a new waypoint gets
WithOrigin(wps, nid, p) ==
  IF HasType(wps, "origin")
  THEN updateWaypoint(wps, FirstOfType(wps, "origin").id, [place |-> p])
  ELSE addWaypoint(wps, [id |-> nid, place |-> p, type |-> "origin", order |-> 0])

WithDestination(wps, nid, p) ==
  IF HasType(wps, "destination")
  THEN updateWaypoint(wps, FirstOfType(wps, "destination").id, [place |-> p])
  ELSE LET maxOrder == IF Len(wps) > 0
                       THEN Max({wps[i].order : i \in Indices(wps)})
                       ELSE -1
       IN  addWaypoint(wps, [id |-> nid, place |-> p, type |-> "destination",
                             order |-> maxOrder + 1])

\* lastOp of a panel handler; note tells which branch it took
PanelOp(name, arg, note) == [Op(name, arg) EXCEPT !.note = note]

NoRequestMade ==
  UNCHANGED <<currentRoute, routingError, isCalculatingRoute, pending, fetchCount>>

\* MapView: getCurrentPosition's success callback
getCurrentPositionResolves(p) ==
  /\ userLocation' = p
  /\ lastOp' = Op("getCurrentPosition", p)
  /\ UNCHANGED <<storeVars, nzVars, svcArgs, svcResult, searchResults,
                 activePlaceId, placesIsSearching, geoFetches, zoomVars, typeVars>>

\* setOrigin, then calculateRoute() if (destinationWaypoint.value)
handleOriginSelected(p) ==
  /\ uiMode = "directions"
  /\ hasOrigin \/ CanCreate
  /\ LET wps == WithOrigin(waypoints, nextId, p)
     IN  /\ waypoints' = wps
         /\ IF HasType(wps, "destination") THEN calculateRouteWith(wps)
            ELSE NoRequestMade
  /\ nextId' = IF hasOrigin THEN nextId ELSE nextId + 1
  /\ lastOp' = PanelOp("handleOriginSelected", p,
                       IF hasOrigin THEN "updated" ELSE "created")
  /\ UNCHANGED <<uiMode, alternativeRoutes, travelMode, showSearchMarkers,
                 nzVars, sideVars>>

\* setDestination, and nothing after it
handleDestinationSelected(p) ==
  /\ uiMode = "directions"
  /\ hasDestination \/ CanCreate
  /\ waypoints' = WithDestination(waypoints, nextId, p)
  /\ nextId' = IF hasDestination THEN nextId ELSE nextId + 1
  /\ NoRequestMade
  /\ lastOp' = PanelOp("handleDestinationSelected", p,
                       IF hasDestination THEN "updated" ELSE "created")
  /\ UNCHANGED <<uiMode, alternativeRoutes, travelMode, showSearchMarkers,
                 nzVars, sideVars>>

\* a faulty handleOriginMyLocation: without a location the panel is left
handleOriginMyLocationLeaves ==
  /\ uiMode = "directions"
  /\ userLocation # NoPlace => (hasOrigin \/ CanCreate)
  /\ IF userLocation # NoPlace
     THEN /\ waypoints' = WithOrigin(waypoints, nextId, userLocation)
          /\ nextId' = IF hasOrigin THEN nextId ELSE nextId + 1
          /\ lastOp' = PanelOp("handleOriginMyLocation", userLocation, "set")
          /\ UNCHANGED <<uiMode, showSearchMarkers, currentRoute, routingError>>
     ELSE /\ uiMode' = "search"
          /\ waypoints' = <<>>
          /\ currentRoute' = NoRoute
          /\ routingError' = NoError
          /\ showSearchMarkers' = TRUE
          /\ lastOp' = PanelOp("handleOriginMyLocation", NoPlace, "alert")
          /\ UNCHANGED nextId
  /\ UNCHANGED <<isCalculatingRoute, pending, fetchCount, alternativeRoutes,
                 travelMode, nzVars, sideVars>>

\* with a location: setOrigin('Mi ubicación', ...) and the input's text;
\* without one: alert(...)
handleOriginMyLocation ==
  /\ uiMode = "directions"
  /\ userLocation # NoPlace => (hasOrigin \/ CanCreate)
  /\ IF userLocation # NoPlace
     THEN /\ waypoints' = WithOrigin(waypoints, nextId, userLocation)
          /\ nextId' = IF hasOrigin THEN nextId ELSE nextId + 1
          /\ lastOp' = PanelOp("handleOriginMyLocation", userLocation, "set")
     ELSE /\ UNCHANGED <<waypoints, nextId>>
          /\ lastOp' = PanelOp("handleOriginMyLocation", NoPlace, "alert")
  /\ NoRequestMade
  /\ UNCHANGED <<uiMode, alternativeRoutes, travelMode, showSearchMarkers,
                 nzVars, sideVars>>

handleCalculateRoute == uiMode = "directions" /\ calculateRoute
handleClearAll       == uiMode = "directions" /\ clearRoute
handleBackToSearch   == uiMode = "directions" /\ setSearchMode

\* "Cómo llegar" on a search result p that is among searchResults (for an
\* id that is not, the handler returns before it writes anything):
\* setDirectionsMode, setDestination, and with a user location setOrigin
\* and calculateRoute
handleGetDirections(p) ==
  /\ uiMode = "search"
  /\ uiMode' = "directions"
  /\ showSearchMarkers' = FALSE
  /\ LET n1   == IF hasDestination THEN nextId ELSE nextId + 1
         wps1 == WithDestination(waypoints, nextId, p)
         n2   == IF userLocation = NoPlace \/ HasType(wps1, "origin")
                 THEN n1 ELSE n1 + 1
         wps2 == IF userLocation = NoPlace THEN wps1
                 ELSE WithOrigin(wps1, n1, userLocation)
     IN  /\ Len(wps2) <= MaxWaypoints
         /\ n2 <= MaxIds + 1
         /\ waypoints' = wps2
         /\ nextId' = n2
         /\ IF userLocation = NoPlace THEN NoRequestMade
            ELSE calculateRouteWith(wps2)
  /\ lastOp' = PanelOp("handleGetDirections", p,
                       IF userLocation = NoPlace THEN "manual" ELSE "requested")
  /\ UNCHANGED <<alternativeRoutes, travelMode, nzVars, sideVars>>

\* the provider answers the panel's requests with a route or with a failure
PanelOutcomes == {BodyOutcome("Ok", ProviderPaths), FailOutcome("httpStatus")}

\* the user is at one place and picks search results and origins there;
\* destinations are picked among all places
PanelNext ==
  \/ \E p \in StorePlaces : getCurrentPositionResolves(p)
  \/ \E p \in StorePlaces : handleGetDirections(p)
  \/ \E p \in StorePlaces : handleOriginSelected(p)
  \/ \E p \in Places : handleDestinationSelected(p)
  \/ handleOriginMyLocation
  \/ handleCalculateRoute
  \/ handleClearAll
  \/ handleBackToSearch
  \/ \E r \in pending : \E o \in PanelOutcomes : calculateRouteSettles(r, o)

SpecPanel == Init /\ [][PanelNext]_vars

\* ------------------------------------------------ search-result markers
\* searchPlaces from its await on: the results replace the stored ones (an
\* empty list after a failure) and no place is active
ResultLists == UNION {[1..n -> Places] : n \in 0..MaxPlace}

searchPlacesSettles(results) ==
  /\ searchResults' = results
  /\ activePlaceId' = NoPlace
  /\ lastOp' = Op("searchPlaces", 0)
  /\ UNCHANGED <<storeVars, nzVars, svcArgs, svcResult, userLocation,
                 placesIsSearching, geoFetches, zoomVars, typeVars>>

setActivePlaceId(id) ==
  /\ activePlaceId' = id
  /\ lastOp' = Op("setActivePlaceId", id)
  /\ UNCHANGED <<storeVars, nzVars, svcArgs, svcResult, searchResults,
                 userLocation, placesIsSearching, geoFetches, zoomVars, typeVars>>

\* Map.vue: the search results that get a marker
visibleSearchResults ==
  IF ~showSearchMarkers
  THEN IF activePlaceId # NoPlace
       THEN SelectSeq(searchResults, LAMBDA id : id = activePlaceId)
       ELSE <<>>
  ELSE searchResults

\* the commands that write uiMode, the places store or the waypoints
MarkersNext ==
  \/ setDirectionsMode
  \/ setSearchMode
  \/ clearRoute
  \/ \E m \in TravelModes : setTravelMode(m)
  \/ \E p \in StorePlaces : setOrigin(p)
  \/ \E p \in StorePlaces : setDestination(p)
  \/ \E results \in ResultLists : searchPlacesSettles(results)
  \/ \E id \in Places \cup {NoPlace} : setActivePlaceId(id)

SpecMarkers == Init /\ [][MarkersNext]_vars

\* ------------------------------------------------------ the service alone
\* One call of getRoutes or getRoute: the waypoints given (their places),
\* the travel mode, and what the provider would answer.
WaypointLists ==
  UNION {[1..n -> Places] : n \in 0..MaxWaypoints}

ServiceOutcomes ==
  FailureOutcomes
    \cup {BodyOutcome("NoRoute", <<SimpleOSRMRoute(MaxMeters, MaxSeconds)>>)}
    \cup {BodyOutcome("Ok", paths) :
            paths \in UNION {[1..n -> LedgerPaths] : n \in 1..(MaxAlternatives + 1)}}

\* a faulty validation: one waypoint is let through to the provider
getRoutesCallLenient(wps, mode, outcome) ==
  IF Len(wps) < 1
  THEN [fetches |-> 0, ok |-> FALSE, routes |-> <<>>,
        error |-> createError("INVALID_WAYPOINTS")]
  ELSE LET res == getRoutes(mode, outcome, 1)
       IN  [fetches |-> 1, ok |-> res.ok, routes |-> res.routes,
            error |-> res.error]

\* getRoutes as a whole: the length check, thrown before the try and so
\* before any fetch, then the fetch and what follows it
getRoutesCall(wps, mode, outcome) ==
  IF Len(wps) < 2
  THEN [fetches |-> 0, ok |-> FALSE, routes |-> <<>>,
        error |-> createError("INVALID_WAYPOINTS")]
  ELSE LET res == getRoutes(mode, outcome, 1)
       IN  [fetches |-> 1, ok |-> res.ok, routes |-> res.routes,
            error |-> res.error]

\* getRoute as a whole: getRoutes(waypoints, travelMode, 0), then routes[0]
getRouteCall(wps, mode, outcome) ==
  LET res == getRoutesCall(wps, mode, outcome)
  IN  IF ~res.ok THEN res
      ELSE IF res.routes = <<>>
      THEN [res EXCEPT !.ok = FALSE, !.error = createError("NO_ROUTE")]
      ELSE [res EXCEPT !.routes = <<res.routes[1]>>]

ServiceInit ==
  /\ StoreInit
  /\ NormalizerIdle
  /\ PlacesIdle
  /\ ZoomIdle
  /\ TypingIdle
  /\ svcArgs \in [waypoints : WaypointLists, travelMode : TravelModes,
                  outcome : ServiceOutcomes]
  /\ svcResult = NoCall
  /\ lastOp = Op("init", 0)

getRoutesCalled ==
  /\ svcResult = NoCall
  /\ svcResult' = getRoutesCall(svcArgs.waypoints, svcArgs.travelMode,
                                svcArgs.outcome)
  /\ lastOp' = Op("getRoutes", 0)
  /\ UNCHANGED <<storeVars, nzVars, svcArgs, placeVars, zoomVars, typeVars>>

getRouteCalled ==
  /\ svcResult = NoCall
  /\ svcResult' = getRouteCall(svcArgs.waypoints, svcArgs.travelMode,
                               svcArgs.outcome)
  /\ lastOp' = Op("getRoute", 0)
  /\ UNCHANGED <<storeVars, nzVars, svcArgs, placeVars, zoomVars, typeVars>>

ServiceNext == getRoutesCalled \/ getRouteCalled

SpecService == ServiceInit /\ [][ServiceNext]_vars

\* ------------------------------------------------- getZoomByAddressType
\* Strings are sequences of characters.  String.prototype.toLowerCase maps
\* each capital letter to its small letter and leaves the rest.
SmallLetters ==
  <<"a", "b", "c", "d", "e", "f", "g", "h", "i", "j", "k", "l", "m", "n", "o", "p", "q", "r", "s", "t", "u", "v", "w", "x", "y", "z">>
CapitalLetters ==
  <<"A", "B", "C", "D", "E", "F", "G", "H", "I", "J", "K", "L", "M", "N", "O", "P", "Q", "R", "S", "T", "U", "V", "W", "X", "Y", "Z">>

LowerChar(c) ==
  IF \E k \in Indices(CapitalLetters) : CapitalLetters[k] = c
  THEN SmallLetters[CHOOSE k \in Indices(CapitalLetters) : CapitalLetters[k] = c]
  ELSE c
UpperChar(c) ==
  IF \E k \in Indices(SmallLetters) : SmallLetters[k] = c
  THEN CapitalLetters[CHOOSE k \in Indices(SmallLetters) : SmallLetters[k] = c]
  ELSE c

toLowerCase(s) == [i \in Indices(s) |-> LowerChar(s[i])]

\* the object literal zoomLevels: its own properties
zoomLevels ==
  {<<<<"c", "o", "u", "n", "t", "r", "y">>, 5>>,
   <<<<"c", "o", "n", "t", "i", "n", "e", "n", "t">>, 3>>,
   <<<<"s", "t", "a", "t", "e">>, 7>>,
   <<<<"r", "e", "g", "i", "o", "n">>, 7>>,
   <<<<"p", "r", "o", "v", "i", "n", "c", "e">>, 8>>,
   <<<<"c", "i", "t", "y">>, 11>>,
   <<<<"t", "o", "w", "n">>, 12>>,
   <<<<"v", "i", "l", "l", "a", "g", "e">>, 13>>,
   <<<<"m", "u", "n", "i", "c", "i", "p", "a", "l", "i", "t", "y">>, 12>>,
   <<<<"n", "e", "i", "g", "h", "b", "o", "u", "r", "h", "o", "o", "d">>, 14>>,
   <<<<"s", "u", "b", "u", "r", "b">>, 14>>,
   <<<<"d", "i", "s", "t", "r", "i", "c", "t">>, 13>>,
   <<<<"q", "u", "a", "r", "t", "e", "r">>, 14>>,
   <<<<"p", "l", "a", "c", "e">>, 18>>,
   <<<<"a", "m", "e", "n", "i", "t", "y">>, 17>>,
   <<<<"b", "u", "i", "l", "d", "i", "n", "g">>, 18>>,
   <<<<"h", "o", "u", "s", "e">>, 18>>,
   <<<<"a", "d", "d", "r", "e", "s", "s">>, 18>>,
   <<<<"r", "o", "a", "d">>, 16>>,
   <<<<"s", "t", "r", "e", "e", "t">>, 16>>,
   <<<<"p", "o", "i">>, 17>>,
   <<<<"s", "h", "o", "p">>, 18>>,
   <<<<"r", "e", "s", "t", "a", "u", "r", "a", "n", "t">>, 18>>}

\* what the object inherits from Object.prototype under a name written in
\* small letters only: the constructor, and the prototype itself
InheritedNames ==
  {<<"c", "o", "n", "s", "t", "r", "u", "c", "t", "o", "r">>,
   <<"_", "_", "p", "r", "o", "t", "o", "_", "_">>}

Number(n)   == [kind |-> "number", value |-> n]
NotANumber  == [kind |-> "object", value |-> 0]

\* zoomLevels[name]: an own property, an inherited one, or undefined
Lookup(name) ==
  IF \E row \in zoomLevels : row[1] = name
  THEN Number((CHOOSE row \in zoomLevels : row[1] = name)[2])
  ELSE IF name \in InheritedNames THEN NotANumber
  ELSE [kind |-> "undefined", value |-> 0]

\* zoomLevels[addresstype.toLowerCase()] || 13
getZoomByAddressType(addresstype) ==
  LET found == Lookup(toLowerCase(addresstype))
  IN  IF found.kind = "undefined" \/ (found.kind = "number" /\ found.value = 0)
      THEN Number(13)
      ELSE found

\* every way to write a word in capital and small letters
CaseVariants(word) ==
  {[i \in Indices(word) |-> IF i \in caps THEN UpperChar(word[i]) ELSE word[i]] :
     caps \in SUBSET Indices(word)}

\* the category names, two names that are no category, two names of
\* Object.prototype and one that differs from such a name in case only
\* (toString), each in every letter case; and the empty string
ZoomWords ==
  {row[1] : row \in zoomLevels} \cup InheritedNames
    \cup {<<"o", "c", "e", "a", "n">>, <<"t", "o", "s", "t", "r", "i", "n", "g">>, <<"p", "e", "a", "k">>, <<>>}

ZoomInputs == UNION {CaseVariants(word) : word \in ZoomWords}

ZoomInit ==
  /\ StoreInit
  /\ NormalizerIdle
  /\ ServiceIdle
  /\ PlacesIdle
  /\ TypingIdle
  /\ zoomInput \in ZoomInputs
  /\ zoomResult = NoCall
  /\ lastOp = Op("init", 0)

getZoomByAddressTypeCalled ==
  /\ zoomResult = NoCall
  /\ zoomResult' = getZoomByAddressType(zoomInput)
  /\ lastOp' = Op("getZoomByAddressType", 0)
  /\ UNCHANGED <<storeVars, nzVars, svcArgs, svcResult, placeVars, zoomInput,
                 typeVars>>

SpecZoom == ZoomInit /\ [][getZoomByAddressTypeCalled]_vars

\* ------------------------------------------------------- usePlaceSearch
\* Texts are sequences of characters; Trim is String.prototype.trim.
RECURSIVE TrimStart(_)
TrimStart(q) ==
  IF q # <<>> /\ Head(q) = " " THEN TrimStart(Tail(q)) ELSE q

RECURSIVE TrimEnd(_)
TrimEnd(q) ==
  IF q # <<>> /\ q[Len(q)] = " " THEN TrimEnd(SubSeq(q, 1, Len(q) - 1)) ELSE q

Trim(q) == TrimEnd(TrimStart(q))

Texts == {<<>>, <<" ">>, <<"a">>, <<" ", "b">>, <<"a", "b">>}

\* a faulty search: the earlier timer is not cleared
searchNoCancel(query) ==
  /\ keystrokes < MaxKeystrokes
  /\ searchQuery' = query
  /\ keystrokes' = keystrokes + 1
  /\ idleTicks' = 0
  /\ IF Trim(query) = <<>>
     THEN /\ isSearching' = FALSE
          /\ UNCHANGED <<searchTimer, timeouts>>
     ELSE /\ isSearching' = TRUE
          /\ searchTimer' = keystrokes + 1
          /\ timeouts' = timeouts
                \cup {[id |-> keystrokes + 1, query |-> query, left |-> DebounceTicks]}
  /\ lastOp' = Op("search", 0)
  /\ UNCHANGED <<storeVars, nzVars, svcArgs, svcResult, placeVars, zoomVars,
                 geocodeCalls, geocodeInFlight>>

\* search(query): one keystroke.  clearTimeout of an id that has fired or
\* was cleared before does nothing.
search(query) ==
  /\ keystrokes < MaxKeystrokes
  /\ searchQuery' = query
  /\ keystrokes' = keystrokes + 1
  /\ idleTicks' = 0
  /\ LET cleared == IF searchTimer # NoTimer
                    THEN {t \in timeouts : t.id # searchTimer}
                    ELSE timeouts
     IN  IF Trim(query) = <<>>
         THEN /\ isSearching' = FALSE
              /\ timeouts' = cleared
              /\ UNCHANGED searchTimer
         ELSE /\ isSearching' = TRUE
              /\ searchTimer' = keystrokes + 1
              /\ timeouts' = cleared
                    \cup {[id |-> keystrokes + 1, query |-> query,
                           left |-> DebounceTicks]}
  /\ lastOp' = Op("search", 0)
  /\ UNCHANGED <<storeVars, nzVars, svcArgs, svcResult, placeVars, zoomVars,
                 geocodeCalls, geocodeInFlight>>

clearSearch ==
  /\ timeouts' = IF searchTimer # NoTimer
                 THEN {t \in timeouts : t.id # searchTimer}
                 ELSE timeouts
  /\ searchQuery' = <<>>
  /\ isSearching' = FALSE
  /\ lastOp' = Op("clearSearch", 0)
  /\ UNCHANGED <<storeVars, nzVars, svcArgs, svcResult, placeVars, zoomVars,
                 searchTimer, geocodeCalls, geocodeInFlight, keystrokes, idleTicks>>

\* time passes; a timeout that is due runs before more time passes
Tick ==
  /\ \A t \in timeouts : t.left > 0
  /\ timeouts # {} \/ idleTicks < DebounceTicks
  /\ timeouts' = {[t EXCEPT !.left = @ - 1] : t \in timeouts}
  /\ idleTicks' = IF idleTicks < DebounceTicks THEN idleTicks + 1 ELSE idleTicks
  /\ lastOp' = Op("tick", 0)
  /\ UNCHANGED <<storeVars, nzVars, svcArgs, svcResult, placeVars, zoomVars,
                 searchQuery, isSearching, searchTimer, geocodeCalls,
                 geocodeInFlight, keystrokes>>

\* the timeout's callback up to its await: searchPlaces(query) is called
\* with the text the callback closed over
TimeoutFires(t) ==
  /\ t \in timeouts
  /\ t.left = 0
  /\ timeouts' = timeouts \ {t}
  /\ geocodeCalls' = Append(geocodeCalls, t.query)
  /\ geocodeInFlight' = geocodeInFlight + 1
  /\ lastOp' = Op("searchPlaces", 0)
  /\ UNCHANGED <<storeVars, nzVars, svcArgs, svcResult, placeVars, zoomVars,
                 searchQuery, isSearching, searchTimer, keystrokes, idleTicks>>

\* the callback after its await: isSearching.value = false
SearchPlacesReturns ==
  /\ geocodeInFlight > 0
  /\ geocodeInFlight' = geocodeInFlight - 1
  /\ isSearching' = FALSE
  /\ lastOp' = Op("searchPlacesReturns", 0)
  /\ UNCHANGED <<storeVars, nzVars, svcArgs, svcResult, placeVars, zoomVars,
                 searchQuery, searchTimer, timeouts, geocodeCalls, keystrokes,
                 idleTicks>>

TypingNext ==
  \/ \E query \in Texts : search(query)
  \/ clearSearch
  \/ Tick
  \/ \E t \in timeouts : TimeoutFires(t)
  \/ SearchPlacesReturns

SpecTyping == Init /\ [][TypingNext]_vars

\* ---- places store: searchPlaces against the geocoder (SpecGeocode)

\* what the geocoder knows: the place ids it answers a text with
Geocoded(query) ==
  CASE query = <<"a">> -> <<1>>
    [] query = <<" ", "b">> -> <<2>>
    [] query = <<"a", "b">> -> <<1, 2>>
    [] OTHER -> <<>>

\* fetch resolves with a JSON array, fetch rejects, the answer is not 2xx and
\* carries an error body, or the body is no JSON array
GeocoderOutcomes == {"ok", "fetchRejects", "httpStatus", "badBody"}

Awaiting == {f.call : f \in {g \in geoFetches : g.state = "pending"}}

\* searchResults after the try/catch of a fetch that ended in `state`
ResultsOf(f) ==
  IF f.state = "ok" THEN Geocoded(geocodeCalls[f.call]) ELSE <<>>

\* searchPlaces(query) up to its await.  An async function whose body
\* returns hands its caller a resolved promise.
searchPlaces(query) ==
  /\ Len(geocodeCalls) < MaxKeystrokes
  /\ geocodeCalls' = Append(geocodeCalls, query)
  /\ IF query = <<>>
     THEN /\ searchResults' = <<>>
          /\ activePlaceId' = NoPlace
          /\ lastOp' = [Op("searchPlaces", Len(geocodeCalls) + 1)
                          EXCEPT !.note = "resolved"]
          /\ UNCHANGED <<placesIsSearching, geoFetches>>
     ELSE /\ placesIsSearching' = TRUE
          /\ geoFetches' = geoFetches
                \cup {[call |-> Len(geocodeCalls) + 1, state |-> "pending",
                       over |-> Awaiting]}
          /\ lastOp' = [Op("searchPlaces", Len(geocodeCalls) + 1)
                          EXCEPT !.note = "pending"]
          /\ UNCHANGED <<searchResults, activePlaceId>>
  /\ UNCHANGED <<storeVars, nzVars, svcArgs, svcResult, userLocation, zoomVars,
                 searchQuery, isSearching, searchTimer, timeouts,
                 geocodeInFlight, keystrokes, idleTicks>>

\* searchPlaces after its await: the try block's assignments or the catch
\* block's, then finally.  The catch block logs and does not rethrow, so the
\* promise resolves in both cases.
searchPlacesResponds(f, outcome) ==
  /\ f \in geoFetches
  /\ f.state = "pending"
  /\ \E done \in {[f EXCEPT !.state = IF outcome = "ok" THEN "ok" ELSE "failed"]} :
       /\ geoFetches' = (geoFetches \ {f}) \cup {done}
       /\ searchResults' = IF outcome = "ok" THEN Geocoded(geocodeCalls[f.call])
                                              ELSE <<>>
  /\ activePlaceId' = NoPlace
  /\ placesIsSearching' = FALSE
  /\ lastOp' = [Op("searchPlacesResponds", f.call)
                  EXCEPT !.note = "resolved"]
  /\ UNCHANGED <<storeVars, nzVars, svcArgs, svcResult, userLocation, zoomVars,
                 typeVars>>

GeocodeNext ==
  \/ \E query \in Texts : searchPlaces(query)
  \/ \E f \in geoFetches : \E outcome \in GeocoderOutcomes :
        searchPlacesResponds(f, outcome)
  \/ \E id \in Places \cup {NoPlace} : setActivePlaceId(id)

SpecGeocode == Init /\ [][GeocodeNext]_vars

\* ================================================================ claims

\* ---- the waypoint collection (SpecWaypoints, SpecWaypointOrder)

\* C1: in every state reachable by setOrigin, setDestination,
\* addIntermediateWaypoint, removeWaypoint, swapOriginDestination and
\* clearRoute, at most one waypoint has type origin and at most one has type
\* destination.
C1_AtMostOneOriginAndDestination ==
  /\ Cardinality(originWaypoints) <= 1
  /\ Cardinality(destinationWaypoints) <= 1

\* C1's case: origin, intermediate and destination are stored and the two
\* ends have just been swapped
C1_SwappedWithBothEnds ==
  /\ lastOp.op = "swapOriginDestination"
  /\ Len(waypoints) >= 3
  /\ Cardinality(originWaypoints) = 1
  /\ Cardinality(destinationWaypoints) = 1

\* C2: in every state reachable by setOrigin, setDestination,
\* addIntermediateWaypoint and removeWaypoint in any order, the order values
\* of the n stored waypoints are exactly 0..n-1 without duplicates, the
\* origin holds the lowest order and the destination the highest.
C2_OrdersAreZeroToN ==
  /\ {waypoints[i].order : i \in Indices(waypoints)} = 0..(Len(waypoints) - 1)
  /\ \A i, j \in Indices(waypoints) :
       i # j => waypoints[i].order # waypoints[j].order
  /\ \A i \in originWaypoints : \A j \in Indices(waypoints) :
       waypoints[i].order <= waypoints[j].order
  /\ \A i \in destinationWaypoints : \A j \in Indices(waypoints) :
       waypoints[i].order >= waypoints[j].order

\* C2's case: a destination stored before the origin
C2_DestinationThenOrigin ==
  /\ lastOp.op = "setOrigin"
  /\ hasOrigin /\ hasDestination
  /\ originWaypoint.id > destinationWaypoint.id

\* ---- the selection ledger (SpecLedger)

C4_DrivingRoundTripRestores ==
  (nzMode = "driving" /\ nzApplied = <<"cycling", "driving">>)
  => LET original == transformOSRMRoute(nzInput, "driving", 0, 1)
     IN  /\ nzRoute.duration = original.duration
         /\ \A k \in Indices(original.segments) :
              nzRoute.segments[k].duration = original.segments[k].duration

\* C4's case: a driving route whose provider duration is 0 over a distance
\* that is not, retimed to cycling and back
C4_ZeroDurationRoundTrip ==
  /\ nzMode = "driving"
  /\ nzApplied = <<"cycling", "driving">>
  /\ nzInput.duration = 0
  /\ nzInput.distance = MaxMeters

\* ---- the orchestrator (Spec, FairSpec)

\* C5: once clearRoute or setSearchMode has run while a request is in
\* flight, currentRoute and routingError stay null until the next command,
\* whatever response lands meanwhile.
C5_ClearedStaysCleared ==
  lastOp.quiet => (currentRoute = NoRoute /\ routingError = NoError)

\* C5's case: a response has landed after a clearRoute or setSearchMode with
\* no command in between
C5_ResponseAfterClear ==
  lastOp.op = "calculateRouteSettles" /\ lastOp.quiet

\* the request whose response is the stored route or error; 0 if none is
ResultRequest ==
  IF currentRoute # NoRoute THEN currentRoute.id
  ELSE IF routingError # NoError THEN routingError.req
  ELSE 0

\* C6: the response of an earlier request never overwrites the stored result
\* of a request issued later.
C6_EarlierNeverOverwritesLater ==
  [][(lastOp'.op = "calculateRouteSettles" /\ ResultRequest > lastOp'.arg)
     => UNCHANGED <<currentRoute, routingError>>]_vars

\* C6's case: two requests overlapped and the later one's response landed
\* first
C6_LaterLandedFirst ==
  /\ \E r \in pending : r.req < ResultRequest
  /\ lastOp.op = "calculateRouteSettles"

\* C7: calculateRoute with the origin or the destination missing sets
\* routingError to INVALID_WAYPOINTS, leaves hasRoute false and
\* isCalculatingRoute as it was, and makes no call to the provider.
C7_GuardRejects ==
  [][(lastOp'.op = "calculateRoute" /\ ~canCalculateRoute)
     => /\ routingError' = [code |-> "INVALID_WAYPOINTS", req |-> 0]
        /\ ~hasRoute'
        /\ isCalculatingRoute' = isCalculatingRoute
        /\ fetchCount' = fetchCount
        /\ {r.req : r \in pending'} = {r.req : r \in pending}]_vars

\* C7's case: the guard rejected a call made while an earlier request was
\* still loading
C7_RejectedWhileLoading ==
  /\ lastOp.op = "calculateRoute"
  /\ routingError = [code |-> "INVALID_WAYPOINTS", req |-> 0]
  /\ ~canCalculateRoute
  /\ isCalculatingRoute
  /\ pending # {}

\* The contract of a request that passed the guard, for the requests whose
\* history field `alone` is TRUE: while it is in flight the loading flag is
\* set and no error is stored; when it settles with success the stored route
\* is the provider's first path as rank 0, selected, and no error is stored;
\* when it settles with a failure the error getRoute rejected with is stored,
\* and no route.
RequestContract(alone) ==
  /\ \A r \in pending' : r[alone] => (isCalculatingRoute' /\ routingError' = NoError)
  /\ \A r \in pending :
       (r[alone] /\ lastOp'.op = "calculateRouteSettles" /\ lastOp'.arg = r.req)
       => IF lastOp'.note = "ok"
          THEN /\ currentRoute' = transformOSRMRoute(ProviderPaths[1], r.mode, 0, r.req)
               /\ currentRoute'.alternativeIndex = 0
               /\ currentRoute'.isSelected
               /\ hasRoute'
               /\ routingError' = NoError
          ELSE /\ \E o \in StoreOutcomes :
                    /\ ~Succeeds(o)
                    /\ routingError' = [code |-> getRoute(r.mode, o, r.req).error.code,
                                        req  |-> r.req]
               /\ ~hasRoute'

InFlight(n) == \E r \in pending : r.req = n

\* C9: every calculateRoute call that passes the guard sets
\* isCalculatingRoute to false in the end, whatever the provider's outcome,
\* given that every provider call settles.
C9_LoadingFlagIsCleared ==
  \A n \in 1..MaxRequests :
     InFlight(n) ~> (/\ lastOp.op = "calculateRouteSettles"
                     /\ lastOp.arg = n
                     /\ ~isCalculatingRoute)

\* C9's case: a request ended in an error that was not a RoutingError, and
\* the loading flag is cleared
C9_ClearedAfterUnexpectedThrow ==
  /\ lastOp.op = "calculateRouteSettles"
  /\ lastOp.note = "failed"
  /\ routingError = [code |-> "API_ERROR", req |-> lastOp.arg]
  /\ ~isCalculatingRoute

\* the duration policy: the provider's own time for driving, distance over
\* the average speed for the other modes
PolicyDuration(distance, native, mode) ==
  IF mode = "driving" THEN native ELSE calculateDuration(distance, mode)

\* C10: after setTravelMode(m) with a route stored, the stored route has
\* travelMode m, its route-level duration and every maneuver duration follow
\* the duration policy for m, and no call to the provider was made.
C10_SetTravelModeRetimes ==
  [][(lastOp'.op = "setTravelMode" /\ hasRoute)
     => /\ hasRoute'
        /\ currentRoute'.travelMode = travelMode'
        /\ currentRoute'.duration =
             PolicyDuration(currentRoute'.distance, currentRoute'.osrmDuration,
                            travelMode')
        /\ \A k \in Indices(currentRoute'.segments) :
             currentRoute'.segments[k].duration =
               PolicyDuration(currentRoute'.segments[k].distance,
                              currentRoute'.osrmSegmentDurations[k], travelMode')
        /\ fetchCount' = fetchCount]_vars

\* C10's case: a route is stored and setTravelMode named another mode than
\* the route's
C10_ModeChangedWithRoute ==
  /\ lastOp.op = "setTravelMode"
  /\ hasRoute
  /\ travelMode # currentRoute.travelMode
\* ---- the waypoint commands one by one (SpecWaypoints)

\* the stored waypoint with that id (ids never repeat)
WaypointById(wps, id) == wps[CHOOSE i \in Indices(wps) : wps[i].id = id]

\* C11: with origin and destination both stored, swapOriginDestination is one
\* step after which the former origin (same id and place) has type
\* destination and the former destination's order, the former destination
\* has type origin and the former origin's order, every other waypoint is as
\* it was, and one origin and one destination are stored.
C11_SwapIsOneExchange ==
  [][(lastOp'.op = "swapOriginDestination" /\ hasOrigin /\ hasDestination)
     => LET origin      == originWaypoint
            destination == destinationWaypoint
        IN  /\ {waypoints'[i].id : i \in Indices(waypoints')}
                 = {waypoints[i].id : i \in Indices(waypoints)}
            /\ Len(waypoints') = Len(waypoints)
            /\ WaypointById(waypoints', origin.id)
                 = [origin EXCEPT !.type = "destination", !.order = destination.order]
            /\ WaypointById(waypoints', destination.id)
                 = [destination EXCEPT !.type = "origin", !.order = origin.order]
            /\ \A i \in Indices(waypoints) :
                 waypoints[i].id \notin {origin.id, destination.id}
                 => WaypointById(waypoints', waypoints[i].id) = waypoints[i]
            /\ Cardinality(originWaypoints') = 1
            /\ Cardinality(destinationWaypoints') = 1]_vars

\* C11's case: the former destination is now the origin, before an
\* intermediate waypoint and the former origin
C11_EndsExchanged ==
  /\ lastOp.op = "swapOriginDestination"
  /\ Len(waypoints) >= 3
  /\ hasOrigin /\ hasDestination
  /\ originWaypoint.id > destinationWaypoint.id
  /\ originWaypoint.order < destinationWaypoint.order

\* the same waypoints by id, each with the same type and order
SameTypesAndOrders(a, b) ==
  /\ {a[i].id : i \in Indices(a)} = {b[i].id : i \in Indices(b)}
  /\ Len(a) = Len(b)
  /\ \A i \in Indices(a) :
       /\ WaypointById(b, a[i].id).type = a[i].type
       /\ WaypointById(b, a[i].id).order = a[i].order

\* C12: swapOriginDestination applied twice returns every waypoint to the
\* type and the order it had before the two calls (a call stores
\* SwappedWaypoints of what it found, and so will the call after it).
C12_SwapTwiceRestores ==
  [][lastOp'.op = "swapOriginDestination"
     => /\ waypoints' = SwappedWaypoints(waypoints)
        /\ \A twice \in {SwappedWaypoints(waypoints')} :
             SameTypesAndOrders(twice, waypoints)]_vars

\* C12's case: two swapOriginDestination calls in a row with both ends and
\* an intermediate waypoint stored
C12_SwappedTwice ==
  /\ lastOp.op = "swapOriginDestination"
  /\ lastOp.arg = 2
  /\ hasOrigin /\ hasDestination
  /\ Len(waypoints) >= 3

\* C13: after addIntermediateWaypoint with a destination stored, the new
\* waypoint has the order the destination had, the destination's order is one
\* higher, and the destination is the last waypoint of the collection.
C13_IntermediateGoesBeforeDestination ==
  [][(lastOp'.op = "addIntermediateWaypoint" /\ hasDestination)
     => LET destination == destinationWaypoint
        IN  /\ WaypointById(waypoints', nextId).type = "waypoint"
            /\ WaypointById(waypoints', nextId).order = destination.order
            /\ WaypointById(waypoints', destination.id).order = destination.order + 1
            /\ waypoints'[Len(waypoints')].id = destination.id]_vars

\* C13's case: an intermediate waypoint was added between a stored origin and
\* a stored destination
C13_AddedBetweenEnds ==
  /\ lastOp.op = "addIntermediateWaypoint"
  /\ hasOrigin /\ hasDestination
  /\ Len(waypoints) = 3
  /\ originWaypoint.order = 0
  /\ destinationWaypoint.order = 2

\* C14: removeWaypoint(id) for a stored id removes exactly that waypoint and
\* renumbers the n that remain to orders 0..n-1, so that of any two of them
\* the one with the lower order before has the lower order after.
C14_RemoveRenumbersInOrder ==
  [][(lastOp'.op = "removeWaypoint"
      /\ \E i \in Indices(waypoints) : waypoints[i].id = lastOp'.arg)
     => LET kept == {waypoints[i].id : i \in Indices(waypoints)} \ {lastOp'.arg}
        IN  /\ {waypoints'[i].id : i \in Indices(waypoints')} = kept
            /\ Len(waypoints') = Len(waypoints) - 1
            /\ \A id \in kept :
                 WaypointById(waypoints', id)
                   = [WaypointById(waypoints, id) EXCEPT
                        !.order = WaypointById(waypoints', id).order]
            /\ {waypoints'[i].order : i \in Indices(waypoints')}
                 = 0..(Len(waypoints') - 1)
            /\ \A a, b \in kept :
                 WaypointById(waypoints, a).order < WaypointById(waypoints, b).order
                 => WaypointById(waypoints', a).order < WaypointById(waypoints', b).order]_vars

\* C14's case: one of three stored waypoints was removed
C14_RemovedOneOfThree ==
  /\ lastOp.op = "removeWaypoint"
  /\ Len(waypoints) = 2
  /\ nextId = 4
  /\ \A i \in Indices(waypoints) : waypoints[i].id # lastOp.arg

\* C15: removeWaypoint(id) and updateWaypoint(id, updates) with an id that
\* matches no stored waypoint leave the store as it was: the same waypoints
\* with the same types and orders, the same route and the same error.
C15_UnknownIdChangesNothing ==
  [][/\ \A id \in 1..MaxIds : \A p \in Places :
          (\A i \in Indices(waypoints) : waypoints[i].id # id)
          => updateWaypoint(waypoints, id, [place |-> p, order |-> 0]) = waypoints
     /\ (lastOp'.op = "removeWaypoint"
         /\ \A i \in Indices(waypoints) : waypoints[i].id # lastOp'.arg)
        => /\ waypoints' = waypoints
           /\ currentRoute' = currentRoute
           /\ routingError' = routingError]_vars

\* C15's case: removeWaypoint was given an id that was never handed out,
\* with waypoints stored
C15_RemovedUnknownId ==
  /\ lastOp.op = "removeWaypoint"
  /\ lastOp.arg >= nextId
  /\ Len(waypoints) >= 2

\* the stored waypoint w has place p now; it keeps its id, type, order and
\* array position, and every other waypoint is as it was
UpdatedInPlace(w, p) ==
  waypoints' = [i \in Indices(waypoints) |->
                  IF waypoints[i].id = w.id THEN [w EXCEPT !.place = p]
                  ELSE waypoints[i]]

\* one waypoint was added, with a fresh id, and every other is as it was
CreatedOne(type, order, p) ==
  /\ Len(waypoints') = Len(waypoints) + 1
  /\ WaypointById(waypoints', nextId)
       = [id |-> nextId, place |-> p, type |-> type, order |-> order]
  /\ \A i \in Indices(waypoints) :
       WaypointById(waypoints', waypoints[i].id) = waypoints[i]

\* C16: setOrigin (setDestination) with an origin (destination) stored changes
\* only that waypoint's place; with none stored it adds one waypoint, a new
\* origin with order 0, a new destination with order max(orders) + 1, which
\* is 0 in an empty store.
C16_SetEndUpdatesOrCreates ==
  [][/\ lastOp'.op = "setOrigin"
        => IF hasOrigin THEN UpdatedInPlace(originWaypoint, lastOp'.arg)
           ELSE CreatedOne("origin", 0, lastOp'.arg)
     /\ lastOp'.op = "setDestination"
        => IF hasDestination THEN UpdatedInPlace(destinationWaypoint, lastOp'.arg)
           ELSE CreatedOne("destination",
                           IF waypoints = <<>> THEN 0
                           ELSE Max({waypoints[i].order : i \in Indices(waypoints)}) + 1,
                           lastOp'.arg)]_vars

\* C16's case: setDestination gave a new place to a destination that was
\* stored before the newest waypoint was
C16_DestinationUpdated ==
  /\ lastOp.op = "setDestination"
  /\ hasDestination
  /\ destinationWaypoint.id < nextId - 1
  /\ destinationWaypoint.place = lastOp.arg
  /\ Len(waypoints) >= 2

\* ---- batches and their views (SpecLedger, SpecNormalizer)

\* C17: getRoutes returns the candidates in the provider's order: its i-th
\* path (counted from 0) is the candidate with alternativeIndex i, and
\* exactly one candidate is selected, the one with alternativeIndex 0.
C17_BatchKeepsProviderOrder ==
  lastOp.op = "getRoutes"
  => /\ Len(Batch) = Len(nzInput)
     /\ \A i \in Indices(Batch) :
          /\ Batch[i].alternativeIndex = i - 1
          /\ Batch[i].distance = nzInput[i].distance
          /\ Batch[i].osrmDuration = nzInput[i].duration
          /\ Batch[i].osrmSegmentDurations = StepDurations(nzInput[i].legs)
          /\ Batch[i].isSelected <=> (i = 1)
     /\ Cardinality({i \in Indices(Batch) : Batch[i].isSelected}) = 1

\* C17's case: a batch of three whose first path is slower and longer than
\* its second
C17_SlowestPathFirst ==
  /\ lastOp.op = "getRoutes"
  /\ Len(alternativeRoutes) = 2
  /\ currentRoute.isSelected
  /\ currentRoute.osrmDuration > alternativeRoutes[1].osrmDuration
  /\ currentRoute.distance > alternativeRoutes[1].distance

\* r is n / m rounded to the nearest whole number, halves up (m > 0)
IsRounded(r, n, m) == 2 * m * r - m <= 2 * n /\ 2 * n < 2 * m * r + m

\* the steps of all legs, in order
RECURSIVE FlatSteps(_)
FlatSteps(legs) ==
  IF legs = <<>> THEN <<>> ELSE Head(legs).steps \o FlatSteps(Tail(legs))

\* C18: for every provider path and mode the normalizer gives, for cycling
\* and walking, round(distance * 3600 / (1000 * speed)) with speed 15 and 5
\* km/h, from the route's distance for the route and from each maneuver's
\* own distance for the maneuver; for driving the provider's durations; and
\* in every mode osrmDuration and osrmSegmentDurations are the provider's.
C18_DurationPolicy ==
  (nzRoute # NoRoute /\ nzApplied = <<>>)
  => \A steps \in {FlatSteps(nzInput.legs)} :
       /\ nzRoute.travelMode = nzMode
       /\ nzRoute.distance = nzInput.distance
       /\ nzRoute.osrmDuration = nzInput.duration
       /\ Len(nzRoute.segments) = Len(steps)
       /\ Len(nzRoute.osrmSegmentDurations) = Len(steps)
       /\ \A k \in Indices(steps) :
            /\ nzRoute.segments[k].distance = steps[k].distance
            /\ nzRoute.osrmSegmentDurations[k] = steps[k].duration
       /\ IF nzMode = "driving"
          THEN /\ nzRoute.duration = nzInput.duration
               /\ \A k \in Indices(steps) :
                    nzRoute.segments[k].duration = steps[k].duration
          ELSE \A speed \in {IF nzMode = "cycling" THEN 15 ELSE 5} :
                 /\ IsRounded(nzRoute.duration, nzInput.distance * 3600, 1000 * speed)
                 /\ \A k \in Indices(steps) :
                      IsRounded(nzRoute.segments[k].duration,
                                steps[k].distance * 3600, 1000 * speed)

\* C18's case: a cycling route of two maneuvers in two legs whose distance
\* rounds up to one second
C18_CyclingRoundsUp ==
  /\ lastOp.op = "transformOSRMRoute"
  /\ nzMode = "cycling"
  /\ nzInput.distance = MaxMeters
  /\ Len(nzInput.legs) = 2
  /\ nzRoute.duration = 1
  /\ nzRoute.segments[2].duration = 1
  /\ nzRoute.osrmDuration = MaxSeconds

\* C19: for any batch, ties in duration included, allRoutes flags exactly
\* one entry isFastest; it has the least duration of the batch and, among
\* the candidates of that duration, the lowest alternative rank.
C19_ExactlyOneFastest ==
  currentRoute # NoRoute
  => \A view \in {allRoutes} :
       \A fastest \in {{k \in Indices(view) : view[k].isFastest}} :
         /\ Cardinality(fastest) = 1
         /\ \A k \in fastest, j \in Indices(view) :
              /\ view[k].route.duration <= view[j].route.duration
              /\ view[j].route.duration = view[k].route.duration
                 => view[k].route.alternativeIndex <= view[j].route.alternativeIndex

\* C19's failing case: two different paths of one duration, both flagged
C19_TieFlagsBoth ==
  /\ lastOp.op = "getRoutes"
  /\ travelMode = "driving"
  /\ Len(alternativeRoutes) = 1
  /\ currentRoute.distance # alternativeRoutes[1].distance
  /\ currentRoute.duration = MaxSeconds
  /\ alternativeRoutes[1].duration = MaxSeconds
  /\ allRoutes[1].isFastest /\ allRoutes[2].isFastest

C21_FailureClasses ==
  (lastOp.op = "getRoutes" /\ svcResult.fetches = 1 /\ ~svcResult.ok)
  => \A kind \in {svcArgs.outcome.kind} :
       IF kind = "body" THEN svcResult.error.code = "NO_ROUTE"
       ELSE IF kind \in {"fetchRejects", "fetchRejectsCoded", "httpStatus"}
       THEN svcResult.error.code = "NETWORK_ERROR"
       ELSE /\ svcResult.error.code = "API_ERROR"
            /\ svcResult.error.details # ""

\* C21's failing case: the request never reaches the provider
C21_UnreachableProvider ==
  /\ lastOp.op = "getRoutes"
  /\ Len(svcArgs.waypoints) = 2
  /\ svcArgs.outcome.kind = "fetchRejects"
  /\ svcResult.error.code = "API_ERROR"
  /\ svcResult.error.details = "TypeError"

\* C22: getRoute and getRoutes given fewer than 2 waypoints reject with
\* INVALID_WAYPOINTS and make no HTTP request.
C22_TooFewWaypointsRejected ==
  (svcResult # NoCall /\ Len(svcArgs.waypoints) < 2)
  => /\ ~svcResult.ok
     /\ svcResult.error.code = "INVALID_WAYPOINTS"
     /\ svcResult.fetches = 0

\* C22's case: getRoute is given one waypoint while the provider would
\* have answered with a path
C22_OneWaypointGiven ==
  /\ lastOp.op = "getRoute"
  /\ Len(svcArgs.waypoints) = 1
  /\ svcArgs.outcome.kind = "body" /\ svcArgs.outcome.code = "Ok"
  /\ svcResult.error.code = "INVALID_WAYPOINTS"

\* ---- failures at the orchestrator (Spec)

RoutingErrorCodes == {"INVALID_WAYPOINTS", "NO_ROUTE", "NETWORK_ERROR", "API_ERROR"}

\* C23: whatever the provider or the normalizer fails with, thrown values
\* that are not RoutingErrors and thrown objects that merely carry a string
\* code and a string message included, calculateRoute ends with routingError
\* set to an error whose code is INVALID_WAYPOINTS, NO_ROUTE, NETWORK_ERROR
\* or API_ERROR.
C23_StoredErrorIsTyped ==
  routingError # NoError => routingError.code \in RoutingErrorCodes

\* C23's failing case: fetch rejected with an object that has a code and a
\* message of its own, and the call has settled
C23_ForeignCodeStored ==
  /\ lastOp.op = "calculateRouteSettles"
  /\ lastOp.note = "failed"
  /\ ~isCalculatingRoute
  /\ routingError # NoError
  /\ routingError.code = "ECONNREFUSED"

\* ---- modes and markers (Spec)

\* C24: whatever the state before the call, setSearchMode ends with uiMode
\* search, no waypoints, no stored route, no routing error and the search
\* markers shown again.
C24_SearchModeClearsAll ==
  lastOp.op = "setSearchMode"
  => /\ uiMode = "search"
     /\ waypoints = <<>>
     /\ currentRoute = NoRoute
     /\ ~hasRoute
     /\ routingError = NoError
     /\ showSearchMarkers

\* C24's case: the panel is left while a route request is in flight
C24_LeftWhileLoading ==
  /\ lastOp.op = "setSearchMode"
  /\ pending # {}
  /\ isCalculatingRoute
  /\ waypoints = <<>>

\* C25: in every state reachable through setDirectionsMode, setSearchMode
\* and the other store actions, showSearchMarkers is true exactly when
\* uiMode is search; while it is false the search results that have a
\* marker are none or only the result whose id is activePlaceId.
C25_MarkersFollowMode ==
  /\ showSearchMarkers <=> (uiMode = "search")
  /\ ~showSearchMarkers
     => \A k \in Indices(visibleSearchResults) :
          /\ activePlaceId # NoPlace
          /\ visibleSearchResults[k] = activePlaceId

\* C25's case: directions mode with two results stored, the second one
\* active and alone on the map
C25_OnlyActiveShown ==
  /\ uiMode = "directions"
  /\ Len(searchResults) = 2
  /\ searchResults[1] # searchResults[2]
  /\ activePlaceId = searchResults[2]
  /\ visibleSearchResults = <<activePlaceId>>

\* ---- the directions panel (SpecPanel)

\* a calculateRoute request for the array wps is issued by this step
RequestIssuedFor(wps) ==
  /\ fetchCount' = fetchCount + 1
  /\ \E r \in pending' : r.req = fetchCount' /\ r.coords = UrlCoordinates(wps)
  /\ isCalculatingRoute'

\* C26: in directions mode with a destination stored and an origin present,
\* selecting a place as destination updates the stored destination (same
\* id, no further waypoint) and issues a calculateRoute request for the new
\* destination.
C26_DestinationSelectedRequestsRoute ==
  [][(lastOp'.op = "handleDestinationSelected" /\ hasDestination /\ hasOrigin)
     => /\ Len(waypoints') = Len(waypoints)
        /\ destinationWaypoint'.id = destinationWaypoint.id
        /\ destinationWaypoint'.place = lastOp'.arg
        /\ RequestIssuedFor(waypoints')]_vars

\* C26's failing case: the stored destination was replaced by another place
\* while an origin is present, and no request has ever been made
C26_ReplacedWithoutRequest ==
  /\ lastOp.op = "handleDestinationSelected"
  /\ lastOp.note = "updated"
  /\ hasOrigin
  /\ destinationWaypoint.place = lastOp.arg
  /\ destinationWaypoint.place # originWaypoint.place
  /\ fetchCount = 0
  /\ pending = {}

\* C27: picking "my location" as origin while a destination is stored and
\* the user location is known sets the origin to the user location and then
\* issues a calculateRoute request.
C27_MyLocationRequestsRoute ==
  [][(lastOp'.op = "handleOriginMyLocation" /\ hasDestination
        /\ userLocation # NoPlace)
     => /\ hasOrigin'
        /\ originWaypoint'.place = userLocation
        /\ RequestIssuedFor(waypoints')]_vars

\* C27's failing case: the origin is the user location, a destination is
\* stored, and no request has ever been made
C27_OriginSetWithoutRequest ==
  /\ lastOp.op = "handleOriginMyLocation"
  /\ lastOp.note = "set"
  /\ hasDestination
  /\ hasOrigin
  /\ originWaypoint.place = userLocation
  /\ fetchCount = 0
  /\ pending = {}

\* C28: picking "my location" as origin while the user location is
\* unavailable leaves the waypoints, the stored route and routingError as
\* they were, issues no route request, keeps the UI in directions mode and
\* only shows a notice.
C28_NoLocationOnlyNotice ==
  [][(lastOp'.op = "handleOriginMyLocation" /\ userLocation = NoPlace)
     => /\ UNCHANGED <<waypoints, currentRoute, alternativeRoutes, routingError>>
        /\ UNCHANGED <<fetchCount, pending, isCalculatingRoute>>
        /\ uiMode = "directions" /\ uiMode' = "directions"
        /\ lastOp'.note = "alert"]_vars

\* C28's case: the notice was shown while an origin picked by hand, a
\* destination and their route are stored
C28_NoticeShownRouteKept ==
  /\ lastOp.op = "handleOriginMyLocation"
  /\ lastOp.note = "alert"
  /\ userLocation = NoPlace
  /\ uiMode = "directions"
  /\ hasRoute
  /\ Len(waypoints) = 2

\* ---- getZoomByAddressType (SpecZoom)

\* C29: getZoomByAddressType returns an integer between 3 and 18 for every
\* string, the same one for every letter-case variant of it (country gives
\* 5, BUILDING gives 18), and 13 for every string that is not one of the
\* table's category names, names of built-in object properties included.
C29_ZoomOfEveryString ==
  zoomResult # NoCall
  => \A name \in {toLowerCase(zoomInput)} :
       /\ zoomResult.kind = "number"
       /\ zoomResult.value \in 3..18
       /\ zoomResult = getZoomByAddressType(name)
       /\ name = <<"c", "o", "u", "n", "t", "r", "y">> => zoomResult.value = 5
       /\ name = <<"b", "u", "i", "l", "d", "i", "n", "g">> => zoomResult.value = 18
       /\ (\A row \in zoomLevels : row[1] # name) => zoomResult.value = 13

\* C29's failing case: the string names a property every object inherits
C29_ConstructorIsNoNumber ==
  /\ lastOp.op = "getZoomByAddressType"
  /\ zoomInput = <<"c", "o", "n", "s", "t", "r", "u", "c", "t", "o", "r">>
  /\ zoomResult.kind = "object"

\* ---- typing into a search field (SpecTyping)

\* C30: every keystroke cancels the pending timer before it schedules a new
\* one, so at most one timer is pending and a geocoding call is issued only
\* for the text of the last keystroke, after debounceMs without further
\* input; a keystroke that leaves the text empty or blank cancels the
\* pending timer and issues no call.
C30_OneTimerLastText ==
  [][/\ Cardinality(timeouts') <= 1
     /\ lastOp'.op = "search"
        => /\ geocodeCalls' = geocodeCalls
           /\ IF \A i \in Indices(searchQuery') : searchQuery'[i] = " "
              THEN timeouts' = {}
              ELSE \A t \in timeouts' :
                     t.query = searchQuery' /\ t.left = DebounceTicks
     /\ geocodeCalls' # geocodeCalls
        => /\ geocodeCalls' = Append(geocodeCalls, searchQuery)
           /\ \E i \in Indices(searchQuery) : searchQuery[i] # " "
           /\ idleTicks = DebounceTicks]_vars

\* C30's case: three keystrokes were made and only the last one's text
\* was searched for
C30_OnlyLastTextSearched ==
  /\ keystrokes = 3
  /\ geocodeCalls = << <<"a", "b">> >>
  /\ searchQuery = <<"a", "b">>
  /\ timeouts = {}
  /\ lastOp.op = "searchPlaces"

\* C31: for one search input no two geocoding calls are ever in flight at
\* once, even when the user keeps typing while a call issued by the timer
\* has not returned.
C31_OneGeocodingCallAtATime == geocodeInFlight <= 1

\* C31's failing case: the timer of a later keystroke has fired while the
\* call for an earlier text is still in flight
C31_TwoCallsInFlight ==
  /\ lastOp.op = "searchPlaces"
  /\ geocodeInFlight = 2
  /\ Len(geocodeCalls) = 2
  /\ geocodeCalls[1] # geocodeCalls[2]


\* ---- the geocoder (SpecGeocode)

\* C32: a searchPlaces call whose fetch fails -- the transport fails, the
\* answer is not 2xx, the body is malformed -- ends with searchResults empty,
\* activePlaceId null and isSearching false, and its caller is handed the
\* failure: the promise rejects.
C32_FailureReachesCaller ==
  \A f \in geoFetches :
    (/\ lastOp.op = "searchPlacesResponds"
     /\ lastOp.arg = f.call
     /\ f.state = "failed")
    => /\ searchResults = <<>>
       /\ activePlaceId = NoPlace
       /\ placesIsSearching = FALSE
       /\ lastOp.note = "rejected"

\* a fetch failed, the store was emptied, and the caller's promise resolved
C32_FailureSwallowed ==
  /\ lastOp.op = "searchPlacesResponds"
  /\ lastOp.note = "resolved"
  /\ [call |-> lastOp.arg, state |-> "failed", over |-> {}] \in geoFetches
  /\ searchResults = <<>>
  /\ activePlaceId = NoPlace
  /\ placesIsSearching = FALSE

\* C36: when two searchPlaces calls overlapped and every call has been
\* answered, searchResults holds what the later call's fetch produced,
\* whichever answer arrived first.
C36_LaterQueryWins ==
  \A f \in geoFetches :
    (/\ Awaiting = {}
     /\ f.call = Len(geocodeCalls)
     /\ f.over # {}
     /\ lastOp.op = "searchPlacesResponds")
    => searchResults = ResultsOf(f)

\* "a" was asked, then "ab" while "a" was unanswered; "ab" was answered
\* first, and the list shows the places of "a"
C36_EarlierAnswerArrivesLast ==
  /\ geocodeCalls = << <<"a">>, <<"a", "b">> >>
  /\ geoFetches = {[call |-> 1, state |-> "ok", over |-> {}],
                   [call |-> 2, state |-> "ok", over |-> {1}]}
  /\ lastOp.op = "searchPlacesResponds"
  /\ lastOp.arg = 1
  /\ searchResults = <<1>>

\* ---- the route list (SpecLedger)

\* C33: allRoutes lists the primary route and every alternative exactly once,
\* in non-decreasing order of duration, and evaluating it leaves the store's
\* routes as they were: the order of alternativeRoutes, every
\* alternativeIndex and every isSelected.
C33_AllRoutesListsBatchInOrder ==
  [][lastOp'.op = "allRoutes"
     => /\ Len(allRoutes) = Len(Batch)
        /\ \A i \in Indices(Batch) :
             Cardinality({k \in Indices(allRoutes) :
                            /\ allRoutes[k].index = i - 2
                            /\ allRoutes[k].route = Batch[i]}) = 1
        /\ \A k \in Indices(allRoutes) :
             k > 1 => allRoutes[k - 1].route.duration <= allRoutes[k].route.duration
        /\ currentRoute' = currentRoute
        /\ alternativeRoutes' = alternativeRoutes]_vars

\* the list was evaluated over a batch whose alternatives are stored slower
\* one first, and the primary route is not the fastest
C33_ListReordersBatch ==
  /\ lastOp.op = "allRoutes"
  /\ Len(alternativeRoutes) = 2
  /\ alternativeRoutes[1].duration > alternativeRoutes[2].duration
  /\ currentRoute.duration > alternativeRoutes[2].duration
  /\ allRoutes[1].index = 1

\* ---- the request's waypoints (SpecItinerary)

\* C34: whatever setOrigin, setDestination, addIntermediateWaypoint,
\* removeWaypoint and swapOriginDestination did before, the waypoints a
\* calculateRoute hands to the provider are in ascending order value, the
\* origin first, the destination last, the intermediate stops between, and
\* each is sent as longitude,latitude.
C34_ProviderGetsOrderedStops ==
  [][(lastOp'.op = "calculateRoute" /\ fetchCount' # fetchCount)
     => \E r \in pending' :
          /\ r.req = fetchCount'
          /\ Len(r.coords) = Len(waypoints)
          /\ \A i \in Indices(waypoints) :
               /\ r.coords[i][1] = coordinates(waypoints[i].place)[2]
               /\ r.coords[i][2] = coordinates(waypoints[i].place)[1]
               /\ i > 1 => waypoints[i - 1].order <= waypoints[i].order
               /\ waypoints[i].type = "origin" <=> i = 1
               /\ waypoints[i].type = "destination" <=> i = Len(waypoints)]_vars

\* a request was made for origin, destination, stop in that order: the
\* stop was added after both ends were set
C34_DestinationSentBeforeStop ==
  /\ lastOp.op = "calculateRoute"
  /\ Len(waypoints) = 3
  /\ waypoints[1].type = "origin"
  /\ waypoints[2].type = "destination"
  /\ waypoints[3].type = "waypoint"
  /\ waypoints[3].order < waypoints[2].order
  /\ \E r \in pending : r.coords = UrlCoordinates(waypoints)

\* ---- the loading flag and the stored result (Spec)

\* C35: in every reachable state -- calculateRoute called again while a
\* request is unanswered, clearRoute during a request -- isCalculatingRoute
\* is true exactly when at least one route request is in flight.
C35_LoadingIffRequestInFlight == isCalculatingRoute <=> pending # {}

\* of two overlapping requests one has settled and cleared the flag while
\* the other is unanswered
C35_IdleFlagWhileAwaiting ==
  /\ lastOp.op = "calculateRouteSettles"
  /\ isCalculatingRoute = FALSE
  /\ \E r \in pending : r.req # lastOp.arg /\ ~r.solo

\* ---- the normalizer's frame (SpecNormalizer)

\* C37: recalculateRouteTimes changes nothing but the route's duration, its
\* maneuvers' durations and its travelMode: id, distance, geometry,
\* alternativeIndex, isSelected and the stored provider durations are equal
\* before and after, and so are the number of maneuvers and every
\* maneuver's distance, instruction, coordinates and index.
C37_RecalculateKeepsTheRest ==
  [][lastOp'.op = "recalculateRouteTimes"
     => /\ nzRoute'.id = nzRoute.id
        /\ nzRoute'.distance = nzRoute.distance
        /\ nzRoute'.geometry = nzRoute.geometry
        /\ nzRoute'.alternativeIndex = nzRoute.alternativeIndex
        /\ nzRoute'.isSelected = nzRoute.isSelected
        /\ nzRoute'.osrmDuration = nzRoute.osrmDuration
        /\ nzRoute'.osrmSegmentDurations = nzRoute.osrmSegmentDurations
        /\ Len(nzRoute'.segments) = Len(nzRoute.segments)
        /\ \A k \in Indices(nzRoute.segments) :
             /\ nzRoute'.segments[k].distance = nzRoute.segments[k].distance
             /\ nzRoute'.segments[k].instruction = nzRoute.segments[k].instruction
             /\ nzRoute'.segments[k].coordinates = nzRoute.segments[k].coordinates
             /\ nzRoute'.segments[k].index = nzRoute.segments[k].index]_vars

\* a route of two maneuvers was switched to another mode and its total and
\* a maneuver's duration are no longer the normalizer's
C37_SwitchedAndRetimed ==
  /\ lastOp.op = "recalculateRouteTimes"
  /\ Len(nzApplied) = 1
  /\ nzRoute.travelMode # nzMode
  /\ Len(nzRoute.segments) = 2
  /\ nzRoute.duration # transformOSRMRoute(nzInput, nzMode, 0, 1).duration
  /\ nzRoute.segments[2].duration
       # transformOSRMRoute(nzInput, nzMode, 0, 1).segments[2].duration

\* C38: for every provider path, whatever its number of legs, the
\* normalizer's maneuvers are the steps of all legs in the provider's order,
\* and the maneuver at position k (from 0) has index k: the count runs
\* through the whole path and does not start again at a leg.
C38_ManeuversNumberedAcrossLegs ==
  nzRoute # NoRoute
  => /\ Len(nzRoute.segments) = Len(FlatSteps(nzInput.legs))
     /\ \A k \in Indices(nzRoute.segments) :
          /\ nzRoute.segments[k].index = k - 1
          /\ nzRoute.segments[k].instruction = FlatSteps(nzInput.legs)[k].step
          /\ nzRoute.segments[k].distance = FlatSteps(nzInput.legs)[k].distance

\* a path of two legs was normalized: the first step of the second leg is
\* the maneuver with index 1
C38_SecondLegContinuesCount ==
  /\ lastOp.op = "transformOSRMRoute"
  /\ Len(nzInput.legs) = 2
  /\ Len(nzRoute.segments) = 2
  /\ nzRoute.segments[2].instruction = <<2, 1>>
  /\ nzRoute.segments[2].index = 1

\* ---- the stored result (Spec)

\* C39: in every reachable state a stored route excludes a stored error:
\* currentRoute non-null implies routingError null.
C39_RouteExcludesError == currentRoute # NoRoute => routingError = NoError

\* a route was stored by a request that did not run alone: another call of
\* calculateRoute was made while it was unanswered
C39_RouteStoredAmongOthers ==
  /\ lastOp.op = "calculateRouteSettles"
  /\ lastOp.note = "ok"
  /\ lastOp.clean = FALSE
  /\ currentRoute # NoRoute
  /\ routingError = NoError

\* ---- the guard of calculateRoute (SpecItinerary)

\* C40: whenever canCalculateRoute is true the store holds at least two
\* waypoints, so a calculateRoute that passes its guard makes its request
\* and is not refused for having fewer than two waypoints.
C40_GuardMeansTwoWaypoints ==
  /\ canCalculateRoute => Len(waypoints) >= 2
  /\ (lastOp.op = "calculateRoute" /\ canCalculateRoute)
     => /\ routingError = NoError
        /\ \E r \in pending : Len(r.coords) >= 2

\* calculateRoute passed its guard with exactly an origin and a destination
C40_RequestWithTwoWaypoints ==
  /\ lastOp.op = "calculateRoute"
  /\ canCalculateRoute
  /\ Len(waypoints) = 2
  /\ pending # {}

====
